---- MODULE Spec2Model ----
(***************************************************************************)
(* Trust-and-encryption core: the encryption policy (should_encrypt), the   *)
(* keyring builder (encryption_keyring) and the encrypt and sign methods of *)
(* EncryptHelper, src/e2ee.rs; the OpenPGP envelope engine and the armor    *)
(* codec, src/pgp.rs.                                                       *)
(*                                                                         *)
(* A recipient list is a sequence of entries (Option<Peerstate>, String).  *)
(* Option<T> is modelled as a sequence of length 0 (None) or 1 (Some(x)).  *)
(* Key material is abstract: the key held in slot s of the entry at        *)
(* position i is Key(i, s), so all keys of one call are pairwise distinct  *)
(* (distinct fingerprints) and a key found in a keyring names the entry    *)
(* and the slot it was taken from.                                         *)
(*                                                                         *)
(* OpenPGP messages are symbolic: a message is the nest of packets around   *)
(* its literal data, an encrypted packet names the subkeys and the          *)
(* passphrase-derived keys that open it, a signature names its signer.      *)
(* Around the core: the call managers of deltachat-jsonrpc                  *)
(* (voice_call.rs, callme_integration.rs), whose call ids are fresh on      *)
(* every start, and Session::prefetch of src/imap/session.rs, given the     *)
(* FETCH responses of the server.                                           *)
(* Each component has its own specification; the variables of the other     *)
(* components stay at rest in it.                                           *)
(***************************************************************************)
EXTENDS Integers, Sequences, FiniteSets

VARIABLES
    peerstates,              \* the recipient snapshot passed to both calls
    is_chatmail,             \* context.is_chatmail(): mandatory-encryption transport
    verified,                \* the `verified` argument of encryption_keyring
    should_encrypt_ret,      \* None before the call, Some(bool) after it
    encryption_keyring_ret,  \* None before the call, Some(Result) after it
    pgp_plain,               \* the plaintext handed to pk_encrypt / pk_calc_signature
    pgp_keys,                \* public_keys_for_encryption
    pgp_signer,              \* private_key_for_signing: None or Some(secret key)
    pgp_compress,            \* the compress flag
    pgp_ctext,               \* None, or Some(Result) of pk_encrypt
    pgp_signature,           \* None, or Some(Result) of pk_calc_signature
    pgp_decrypt,             \* None, or Some of the arguments and Result of pk_decrypt
    pgp_validate,            \* None, or Some of the arguments and Result of a validation
    helper_secret,           \* load_self_secret_key: Ok(secret key) or Err
    helper_write,            \* what write_part does: bytes written, and Ok or Err
    helper_ret,              \* None, or Some of the method called and its Result
    symm_plain,              \* the plaintext handed to symm_encrypt
    symm_passphrase,         \* the passphrase handed to symm_encrypt
    symm_ctext,              \* None, or Some(Result) of symm_encrypt
    symm_ret,                \* None, or Some of the arguments and Result of symm_decrypt
    armor_buf,               \* None, or Some(armored text) handed to split_armored_data
    armor_bytes,             \* None, or Some(the bytes the emitter armored)
    armor_ret,               \* None, or Some(Result) of split_armored_data
    task_op,                 \* per asynchronous task: the entry point it calls
    task_at,                 \* per asynchronous task: where the entry point's work is
    trust_store,             \* the trust store: the current record of every recipient
    store_updates,           \* number of trust-store updates so far
    identity_store,          \* per account: the state of its identity store
    ensure_history,          \* per account: the calls of ensure_secret_key_exists so far
    vc_active_calls,         \* VoiceCallManager.active_calls: call id -> ActiveCall
    vc_issued,               \* the call ids returned by start_call / simulate_incoming_call
    vc_ended,                \* the call ids for which end_call returned Ok
    vc_starts,               \* number of successful starts
    vc_ends,                 \* number of successful ends
    cm_node_id,              \* CallmeManager.node_id: None or Some(node id)
    cm_active_calls,         \* CallmeManager.active_calls: call id -> CallmeCall
    cm_tasks,                \* call id -> where its spawned connection task is
    cm_ended,                \* the call ids for which end_call returned Ok
    imap_uid_next,           \* the uid_next argument of prefetch
    imap_list,               \* the FETCH responses the server sends, in order
    imap_ret                 \* None, or Some(the list prefetch returned)

e2ee_vars == <<peerstates, is_chatmail, verified, should_encrypt_ret, encryption_keyring_ret>>

pgp_vars == <<pgp_plain, pgp_keys, pgp_signer, pgp_compress, pgp_ctext, pgp_signature,
              pgp_decrypt, pgp_validate>>

helper_vars == <<helper_secret, helper_write, helper_ret>>

symm_vars == <<symm_plain, symm_passphrase, symm_ctext, symm_ret>>

armor_vars == <<armor_buf, armor_bytes, armor_ret>>

pool_vars == <<task_op, task_at>>

store_vars == <<trust_store, store_updates>>

identity_vars == <<identity_store, ensure_history>>

voice_vars == <<vc_active_calls, vc_issued, vc_ended, vc_starts, vc_ends>>

callme_vars == <<cm_node_id, cm_active_calls, cm_tasks, cm_ended>>

imap_vars == <<imap_uid_next, imap_list, imap_ret>>

\* The trust-and-encryption core, and the components around it.
core_vars == <<e2ee_vars, pgp_vars, helper_vars, symm_vars, armor_vars, pool_vars, store_vars>>

vars == <<core_vars, identity_vars, voice_vars, callme_vars, imap_vars>>

\* The variables a component leaves alone.
not_core_vars == <<identity_vars, voice_vars, callme_vars, imap_vars>>

not_send_vars == <<pgp_vars, helper_vars, symm_vars, armor_vars, pool_vars, not_core_vars>>

not_e2ee_vars == <<not_send_vars, store_vars>>

not_pgp_vars == <<e2ee_vars, helper_vars, symm_vars, armor_vars, pool_vars, store_vars,
    not_core_vars>>

not_helper_vars == <<e2ee_vars, pgp_signer, pgp_ctext, pgp_signature, pgp_decrypt, pgp_validate,
                     symm_vars, armor_vars, pool_vars, store_vars, not_core_vars>>

not_symm_vars == <<e2ee_vars, pgp_vars, helper_vars, armor_vars, pool_vars, store_vars,
    not_core_vars>>

not_armor_vars == <<e2ee_vars, pgp_vars, helper_vars, symm_vars, pool_vars, store_vars,
    not_core_vars>>

not_pool_vars == <<e2ee_vars, pgp_vars, helper_vars, symm_vars, armor_vars, store_vars,
    not_core_vars>>

not_identity_vars == <<core_vars, voice_vars, callme_vars, imap_vars>>

not_voice_vars == <<core_vars, identity_vars, callme_vars, imap_vars>>

not_callme_vars == <<core_vars, identity_vars, voice_vars, imap_vars>>

not_imap_vars == <<core_vars, identity_vars, voice_vars, callme_vars>>

(***************************** bounds ***************************************)

\* Longest recipient list drawn as an input.
MaxRecipients == 2

\* Longest list of OpenPGP keys handed to one call of the envelope engine.
MaxPgpKeys == 2

\* Most header lines of an armored block drawn as an input.
MaxHeaders == 2

\* Most trust-store updates while one message is being sent.
MaxStoreUpdates == 2

\* Most calls of ensure_secret_key_exists on one account.
MaxEnsureCalls == 2

\* The number of call ids a manager hands out.
MaxCalls == 3

\* The largest UID in the mailbox.
MaxUid == 2

\* Most FETCH responses to one UID FETCH command.
MaxFetched == 3

(***************************** values ***************************************)

None == <<>>
Some(x) == <<x>>
IsSome(o) == o /= <<>>
Unwrap(o) == o[1]

Range(s) == {s[i] : i \in 1..Len(s)}

\* Recipient addresses.
Addrs == {"bob@foo.bar", "claire@foo.bar"}

\* aheader::EncryptPreference
EncryptPreference == {"NoPreference", "Mutual", "Reset"}

Key(i, slot) == [of |-> i, slot |-> slot]

\* EncryptHelper.public_key: the local identity's public key.
self_public_key == Key(0, "self")

\* Result<T>
Ok(v) == [tag |-> "Ok", value |-> v]
Err(e) == [tag |-> "Err", value |-> e]

(***************************** at rest **************************************)

\* The encryption helper's policy and keyring calls at rest.
E2eeIdle ==
    /\ peerstates = <<>>
    /\ is_chatmail = FALSE
    /\ verified = FALSE
    /\ should_encrypt_ret = None
    /\ encryption_keyring_ret = None

\* The envelope engine at rest.
PgpIdle ==
    /\ pgp_plain = <<>>
    /\ pgp_keys = <<>>
    /\ pgp_signer = None
    /\ pgp_compress = FALSE
    /\ pgp_ctext = None
    /\ pgp_signature = None
    /\ pgp_decrypt = None
    /\ pgp_validate = None

\* The encryption helper's encrypt and sign calls at rest.
HelperIdle ==
    /\ helper_secret = None
    /\ helper_write = None
    /\ helper_ret = None

\* The passphrase envelope at rest.
SymmIdle ==
    /\ symm_plain = <<>>
    /\ symm_passphrase = None
    /\ symm_ctext = None
    /\ symm_ret = None

\* The armor codec at rest.
ArmorIdle ==
    /\ armor_buf = None
    /\ armor_bytes = None
    /\ armor_ret = None

\* No asynchronous task.
PoolIdle ==
    /\ task_op = <<>>
    /\ task_at = <<>>

\* No trust store in view.
StoreIdle ==
    /\ trust_store = <<>>
    /\ store_updates = 0

\* No account in view.
IdentityIdle ==
    /\ identity_store = <<>>
    /\ ensure_history = <<>>

\* No VoiceCallManager.
VoiceIdle ==
    /\ vc_active_calls = <<>>
    /\ vc_issued = {}
    /\ vc_ended = {}
    /\ vc_starts = 0
    /\ vc_ends = 0

\* No CallmeManager.
CallmeIdle ==
    /\ cm_node_id = None
    /\ cm_active_calls = <<>>
    /\ cm_tasks = <<>>
    /\ cm_ended = {}

\* No IMAP session.
ImapIdle ==
    /\ imap_uid_next = 0
    /\ imap_list = <<>>
    /\ imap_ret = None

NotCoreIdle == IdentityIdle /\ VoiceIdle /\ CallmeIdle /\ ImapIdle

CoreIdle ==
    E2eeIdle /\ PgpIdle /\ HelperIdle /\ SymmIdle /\ ArmorIdle /\ PoolIdle /\ StoreIdle

NotSendIdle == PgpIdle /\ HelperIdle /\ SymmIdle /\ ArmorIdle /\ PoolIdle /\ NotCoreIdle

NotE2eeIdle == NotSendIdle /\ StoreIdle

NotPgpIdle == E2eeIdle /\ HelperIdle /\ SymmIdle /\ ArmorIdle /\ PoolIdle /\ StoreIdle
    /\ NotCoreIdle

NotHelperIdle == E2eeIdle /\ SymmIdle /\ ArmorIdle /\ PoolIdle /\ StoreIdle
    /\ NotCoreIdle

NotSymmIdle == E2eeIdle /\ PgpIdle /\ HelperIdle /\ ArmorIdle /\ PoolIdle /\ StoreIdle
    /\ NotCoreIdle

NotArmorIdle == E2eeIdle /\ PgpIdle /\ HelperIdle /\ SymmIdle /\ PoolIdle /\ StoreIdle
    /\ NotCoreIdle

NotPoolIdle == E2eeIdle /\ PgpIdle /\ HelperIdle /\ SymmIdle /\ ArmorIdle /\ StoreIdle
    /\ NotCoreIdle

NotIdentityIdle == CoreIdle /\ VoiceIdle /\ CallmeIdle /\ ImapIdle

NotVoiceIdle == CoreIdle /\ IdentityIdle /\ CallmeIdle /\ ImapIdle

NotCallmeIdle == CoreIdle /\ IdentityIdle /\ VoiceIdle /\ ImapIdle

NotImapIdle == CoreIdle /\ IdentityIdle /\ VoiceIdle /\ CallmeIdle

(************************ the trust record **********************************)

\* Peerstate::take_key(verified): the verified key when a verified key is
\* required, otherwise the best available key.
take_key(peerstate, require_verified) ==
    IF require_verified THEN peerstate.verified_key ELSE peerstate.public_key

(************************ should_encrypt ************************************)

\* Mutant: a mandatory-encryption transport overrides a missing trust record.
peerstate_allows_encryption_chatmail_first(peerstate, chatmail) ==
    \/ chatmail
    \/ (IsSome(peerstate) /\ Unwrap(peerstate).prefer_encrypt /= "Reset")

\* Mutant: the transport is not consulted.
peerstate_allows_encryption_no_chatmail(peerstate, chatmail) ==
    /\ IsSome(peerstate)
    /\ Unwrap(peerstate).prefer_encrypt /= "Reset"

\* Variant: the preference of an existing record is not looked at.
peerstate_allows_encryption_any_preference(peerstate, chatmail) == IsSome(peerstate)

\* Mutant: a missing trust record is skipped instead of deciding.
peerstate_allows_encryption_missing_skipped(peerstate, chatmail) ==
    IsSome(peerstate) => (chatmail \/ Unwrap(peerstate).prefer_encrypt /= "Reset")

\* One iteration of the loop: TRUE is `continue`, FALSE is `return Ok(false)`.
peerstate_allows_encryption(peerstate, chatmail) ==
    /\ IsSome(peerstate)
    /\ (chatmail \/ Unwrap(peerstate).prefer_encrypt /= "Reset")

\* Mutant: `continue` became `return Ok(true)`, the first recipient decides.
should_encrypt_loop_first_decides(ps, chatmail, i) ==
    IF i > Len(ps) THEN TRUE
    ELSE peerstate_allows_encryption(ps[i].peerstate, chatmail)

RECURSIVE should_encrypt_loop(_, _, _)
should_encrypt_loop(ps, chatmail, i) ==
    IF i > Len(ps) THEN TRUE
    ELSE IF peerstate_allows_encryption(ps[i].peerstate, chatmail)
         THEN should_encrypt_loop(ps, chatmail, i + 1)
         ELSE FALSE

should_encrypt(ps, chatmail) == should_encrypt_loop(ps, chatmail, 1)

(************************ encryption_keyring ********************************)

\* Mutant: the keyring starts empty.
initial_keyring_without_self ==
    [keyring |-> <<>>,
     missing_key_addresses |-> {},
     verifier_addresses |-> <<>>]

\* The locals of encryption_keyring before the first loop.
initial_keyring ==
    [keyring |-> <<self_public_key>>,
     missing_key_addresses |-> {},
     verifier_addresses |-> <<>>]

\* Mutant: take_key(false), the requested trust level is not passed on.
push_recipient_key_any_key(require_verified, entry, acc) ==
    IF IsSome(entry.peerstate)
    THEN IF IsSome(take_key(Unwrap(entry.peerstate), FALSE))
         THEN [acc EXCEPT
                 !.keyring = Append(@, Unwrap(take_key(Unwrap(entry.peerstate), FALSE))),
                 !.verifier_addresses = Append(@, entry.addr)]
         ELSE [acc EXCEPT !.missing_key_addresses = @ \cup {entry.addr}]
    ELSE [acc EXCEPT !.missing_key_addresses = @ \cup {entry.addr}]

\* Mutant: a record without a usable key is only warned about.
push_recipient_key_warn_only(require_verified, entry, acc) ==
    IF IsSome(entry.peerstate)
    THEN IF IsSome(take_key(Unwrap(entry.peerstate), require_verified))
         THEN [acc EXCEPT
                 !.keyring = Append(@, Unwrap(take_key(Unwrap(entry.peerstate), require_verified))),
                 !.verifier_addresses = Append(@, entry.addr)]
         ELSE acc
    ELSE [acc EXCEPT !.missing_key_addresses = @ \cup {entry.addr}]

\* Mutant: a missing trust record is only warned about.
push_recipient_key_skip_missing_peerstate(require_verified, entry, acc) ==
    IF IsSome(entry.peerstate)
    THEN IF IsSome(take_key(Unwrap(entry.peerstate), require_verified))
         THEN [acc EXCEPT
                 !.keyring = Append(@, Unwrap(take_key(Unwrap(entry.peerstate), require_verified))),
                 !.verifier_addresses = Append(@, entry.addr)]
         ELSE [acc EXCEPT !.missing_key_addresses = @ \cup {entry.addr}]
    ELSE acc

\* One iteration of the first loop over the recipients.
push_recipient_key(require_verified, entry, acc) ==
    IF IsSome(entry.peerstate)
    THEN IF IsSome(take_key(Unwrap(entry.peerstate), require_verified))
         THEN [acc EXCEPT
                 !.keyring = Append(@, Unwrap(take_key(Unwrap(entry.peerstate), require_verified))),
                 !.verifier_addresses = Append(@, entry.addr)]
         ELSE [acc EXCEPT !.missing_key_addresses = @ \cup {entry.addr}]
    ELSE [acc EXCEPT !.missing_key_addresses = @ \cup {entry.addr}]

RECURSIVE recipient_keys_loop(_, _, _, _)
recipient_keys_loop(require_verified, ps, i, acc) ==
    IF i > Len(ps) THEN acc
    ELSE recipient_keys_loop(require_verified, ps, i + 1,
                             push_recipient_key(require_verified, ps[i], acc))

\* Mutant: `keyring.len() < 1`.
no_recipient_keys_off_by_one(keyring) == Len(keyring) < 1

\* The post-check that bails out.
no_recipient_keys(keyring) == Len(keyring) <= 1

\* Mutant: the introducer is not looked up among the recipients.
verifier_is_recipient_unchecked(verifier_addresses, verifier) == TRUE

\* verifier_addresses.contains(&verifier)
verifier_is_recipient(verifier_addresses, verifier) ==
    verifier \in Range(verifier_addresses)

\* One iteration of the second loop over the recipients.
push_secondary_key(entry, verifier_addresses, keyring) ==
    IF /\ IsSome(entry.peerstate)
       /\ IsSome(Unwrap(entry.peerstate).secondary_verified_key)
       /\ IsSome(Unwrap(entry.peerstate).secondary_verifier)
       /\ verifier_is_recipient(verifier_addresses,
                                Unwrap(Unwrap(entry.peerstate).secondary_verifier))
    THEN Append(keyring, Unwrap(Unwrap(entry.peerstate).secondary_verified_key))
    ELSE keyring

RECURSIVE secondary_keys_loop(_, _, _, _)
secondary_keys_loop(ps, i, verifier_addresses, keyring) ==
    IF i > Len(ps) THEN keyring
    ELSE secondary_keys_loop(ps, i + 1, verifier_addresses,
                             push_secondary_key(ps[i], verifier_addresses, keyring))

\* Mutant: the second loop runs in both trust modes.
adds_secondary_keys_always(require_verified) == TRUE

\* Whether the second loop runs.
adds_secondary_keys(require_verified) == require_verified

\* Mutant: no early return for an empty recipient list.
returns_early_never(ps) == FALSE

\* Whether the call returns before the loops.
returns_early(ps) == Len(ps) = 0

encryption_keyring(require_verified, ps) ==
    IF returns_early(ps)
    THEN Ok(<<initial_keyring.keyring, initial_keyring.missing_key_addresses>>)
    ELSE LET acc == recipient_keys_loop(require_verified, ps, 1, initial_keyring)
         IN  IF no_recipient_keys(acc.keyring)
             THEN Err("No recipient keys are available, cannot encrypt")
             ELSE IF adds_secondary_keys(require_verified)
                  THEN Ok(<<secondary_keys_loop(ps, 1, acc.verifier_addresses, acc.keyring),
                            acc.missing_key_addresses>>)
                  ELSE Ok(<<acc.keyring, acc.missing_key_addresses>>)

(************************ OpenPGP values ************************************)

\* The owners of the key pairs: alice and bob as in the tests' TestKeys, carol
\* with a key that has no encryption-capable subkey.
KeyNames == {"alice", "bob", "carol"}

\* The subkeys of a key, each tagged with its capability.
Subkeys(name) ==
    CASE name = "alice" -> <<[id |-> "alice.enc", is_encryption_key |-> TRUE]>>
      [] name = "bob"   -> <<[id |-> "bob.auth", is_encryption_key |-> FALSE],
                             [id |-> "bob.enc", is_encryption_key |-> TRUE],
                             [id |-> "bob.enc2", is_encryption_key |-> TRUE]>>
      [] OTHER          -> <<[id |-> "carol.sign", is_encryption_key |-> FALSE]>>

SignedPublicKey(name) == [fingerprint |-> name, public_subkeys |-> Subkeys(name)]

SignedSecretKey(name) == [fingerprint |-> name, secret_subkeys |-> Subkeys(name)]

\* pkey.dc_fingerprint()
dc_fingerprint(key) == key.fingerprint

\* Plaintexts: the empty body and a two-byte body.
Plaintexts == {<<>>, <<104, 105>>}

\* An OpenPGP message is a nest of packets around the literal data.
Literal(data) == [type |-> "Literal", data |-> data]

Signed(fingerprint, inner) == [type |-> "Signed", signer |-> fingerprint, inner |-> inner]

Compressed(inner) == [type |-> "Compressed", inner |-> inner]

\* A session-key-encrypted message: pkesk names the subkeys, skesk the
\* (salt, passphrase) pairs that open it.
Encrypted(pkesk, skesk, inner) ==
    [type |-> "Encrypted", pkesk |-> pkesk, skesk |-> skesk, inner |-> inner]

\* MessageBuilder::from_bytes("", plain)
from_bytes(plain) ==
    [data |-> plain, pkesk |-> {}, skesk |-> {}, signer |-> None, compression |-> FALSE]

\* MessageBuilder::to_armored_string: sign, then compress, then encrypt, then
\* armor as a Message block without headers.
to_armored_string(builder) ==
    LET literal == Literal(builder.data)
        signed == IF IsSome(builder.signer)
                  THEN Signed(Unwrap(builder.signer), literal)
                  ELSE literal
        packed == IF builder.compression THEN Compressed(signed) ELSE signed
    IN  [typ |-> "Message", headers |-> <<>>,
         packets |-> Encrypted(builder.pkesk, builder.skesk, packed)]

\* Message::from_armor
from_armor(text) ==
    IF text.typ = "Message" THEN Ok(text.packets) ELSE Err("invalid armor")

\* Message::decompress: removes one layer of compression if there is one.
decompress(msg) == IF msg.type = "Compressed" THEN msg.inner ELSE msg

\* Message::is_signed
is_signed(msg) == msg.type = "Signed"

\* Message::verify(&pkey.primary_key)
verify(msg, pkey) == msg.type = "Signed" /\ msg.signer = pkey.fingerprint

\* Message::as_data_vec
RECURSIVE as_data_vec(_)
as_data_vec(msg) ==
    CASE msg.type = "Literal" -> Ok(msg.data)
      [] msg.type = "Signed"  -> as_data_vec(msg.inner)
      [] OTHER                -> Err("message must be decrypted and decompressed")

\* The secret keys of the ring that hold a subkey the message is encrypted to.
matching_secret_keys(msg, skeys) ==
    {k \in Range(skeys) :
        \E i \in 1..Len(k.secret_subkeys) : k.secret_subkeys[i].id \in msg.pkesk}

\* Message::decrypt_the_ring(ring, true): the opened message and the secret
\* keys that opened it. A message that is not encrypted comes back as it is,
\* with no key used.
decrypt_the_ring(msg, skeys) ==
    IF msg.type /= "Encrypted"
    THEN Ok([msg |-> msg, secret_keys |-> {}])
    ELSE IF matching_secret_keys(msg, skeys) = {}
         THEN Err("missing key")
         ELSE Ok([msg |-> msg.inner, secret_keys |-> matching_secret_keys(msg, skeys)])

(************************ pk_encrypt ****************************************)

\* Mutant: the first subkey, whatever its flags.
select_pk_for_encryption_first_subkey(key) ==
    IF Len(key.public_subkeys) = 0 THEN None ELSE Some(key.public_subkeys[1])

\* The first subkey flagged as an encryption key, if there is one.
select_pk_for_encryption(key) ==
    LET capable == {i \in 1..Len(key.public_subkeys) :
                       key.public_subkeys[i].is_encryption_key}
    IN  IF capable = {} THEN None
        ELSE Some(key.public_subkeys[CHOOSE i \in capable : \A j \in capable : i <= j])

\* public_keys_for_encryption.iter().filter_map(select_pk_for_encryption)
RECURSIVE filter_map_select(_, _)
filter_map_select(keys, i) ==
    IF i > Len(keys) THEN <<>>
    ELSE select_pk_for_encryption(keys[i]) \o filter_map_select(keys, i + 1)

\* Variant: only the first selected subkey is encrypted to.
encrypt_to_first_key(builder, pkeys) ==
    [builder EXCEPT !.pkesk = @ \cup {pkeys[i].id : i \in {1} \cap DOMAIN pkeys}]

\* The loop `for pkey in pkeys { msg.encrypt_to_key(&mut rng, &pkey)?; }`.
encrypt_to_keys(builder, pkeys) ==
    [builder EXCEPT !.pkesk = @ \cup {pkeys[i].id : i \in 1..Len(pkeys)}]

\* Mutant: `if compress` moved out of the signing branch.
sign_and_compress_unsigned_too(builder, signer, compress) ==
    IF IsSome(signer)
    THEN [builder EXCEPT !.signer = Some(Unwrap(signer).fingerprint),
                         !.compression = compress]
    ELSE [builder EXCEPT !.compression = compress]

\* The signing branch: sign, and compress only when signing.
sign_and_compress(builder, signer, compress) ==
    IF IsSome(signer)
    THEN [builder EXCEPT !.signer = Some(Unwrap(signer).fingerprint),
                         !.compression = compress]
    ELSE builder

pk_encrypt(plain, keys, signer, compress) ==
    Ok(to_armored_string(
          sign_and_compress(encrypt_to_keys(from_bytes(plain), filter_map_select(keys, 1)),
                            signer, compress)))

(************************ pk_decrypt ****************************************)

\* Variant: the ring result is not looked at.
ensure_key_matched_skipped(ring_result) == TRUE

\* anyhow::ensure!(!ring_result.secret_keys.is_empty(), ..)
ensure_key_matched(ring_result) == ring_result.secret_keys /= {}

\* Variant: the decrypted message is returned still compressed.
keep_compression(msg) == msg

\* `let msg = msg.decompress()?;`
remove_compression(msg) == decompress(msg)

pk_decrypt(ctext, skeys) ==
    IF from_armor(ctext).tag = "Err" THEN from_armor(ctext)
    ELSE LET opened == decrypt_the_ring(from_armor(ctext).value, skeys)
         IN  IF opened.tag = "Err" THEN opened
             ELSE IF ~ensure_key_matched(opened.value)
                  THEN Err("decryption failed, no matching secret keys")
                  ELSE Ok(remove_compression(opened.value.msg))

(************************ signature validation ******************************)

\* Variant: every candidate key is reported without verification.
verified_fingerprints_unchecked(msg, pkeys) ==
    {dc_fingerprint(pkeys[i]) : i \in 1..Len(pkeys)}

\* The body of `if msg.is_signed() { for pkey in .. }`.
verified_fingerprints(msg, pkeys) ==
    {dc_fingerprint(pkeys[i]) : i \in {j \in 1..Len(pkeys) : verify(msg, pkeys[j])}}

valid_signature_fingerprints(msg, pkeys) ==
    IF is_signed(msg) THEN Ok(verified_fingerprints(msg, pkeys)) ELSE Ok({})

\* A detached signature: SignatureConfig::sign over the content, armored as
\* a Signature block.
pk_calc_signature(plain, skey) ==
    Ok([typ |-> "Signature", headers |-> <<>>,
        packets |-> [type |-> "Signature", signer |-> skey.fingerprint,
                     issuer |-> skey.fingerprint, content |-> plain]])

\* StandaloneSignature::from_armor_single
from_armor_single(text) ==
    IF text.typ = "Signature" THEN Ok(text.packets) ELSE Err("invalid armor")

\* StandaloneSignature::verify(pkey, content)
verify_detached(sig, pkey, content) ==
    sig.signer = pkey.fingerprint /\ sig.content = content

\* The loop of pk_validate.
detached_fingerprints(sig, content, pkeys) ==
    {dc_fingerprint(pkeys[i]) :
        i \in {j \in 1..Len(pkeys) : verify_detached(sig, pkeys[j], content)}}

pk_validate(content, signature, pkeys) ==
    IF from_armor_single(signature).tag = "Err" THEN from_armor_single(signature)
    ELSE Ok(detached_fingerprints(from_armor_single(signature).value, content, pkeys))

(************************ symm_encrypt, symm_decrypt *************************)

\* StringToKey::new_default(&mut rng): a fresh salt.
Salts == {"salt1", "salt2", "salt3"}

\* Variant: the empty password, as pk_decrypt uses for its key passwords.
Password_empty(passphrase) == ""

\* Password::from(passphrase)
Password_from(passphrase) == passphrase

\* The key an S2K specifier derives from a password.
derive_key(s2k, password) == [salt |-> s2k, password |-> password]

\* builder.encrypt_with_password(s2k, &passphrase)
encrypt_with_password(builder, s2k, password) ==
    [builder EXCEPT !.skesk = @ \cup {[s2k |-> s2k, key |-> derive_key(s2k, password)]}]

\* Message::decrypt_with_password(&password)
decrypt_with_password(msg, password) ==
    IF /\ msg.type = "Encrypted"
       /\ \E esk \in msg.skesk : esk.key = derive_key(esk.s2k, password)
    THEN Ok(msg.inner)
    ELSE Err("missing key")

symm_encrypt(passphrase, plain, s2k) ==
    Ok(to_armored_string(
          encrypt_with_password(from_bytes(plain), s2k, Password_from(passphrase))))

symm_decrypt(passphrase, ctext) ==
    IF from_armor(ctext).tag = "Err" THEN from_armor(ctext)
    ELSE LET msg == decrypt_with_password(from_armor(ctext).value, Password_from(passphrase))
         IN  IF msg.tag = "Err" THEN msg
             ELSE as_data_vec(decompress(msg.value))

(************************ split_armored_data *********************************)

\* Text is a sequence of bytes; an armored block is its block type (None when
\* the BEGIN line names no known type), its header lines in input order and
\* its body, a sequence of base64 digits 0..63 with 64 for the padding `=`.

\* pgp::armor::BlockType
BlockTypes == {"Message", "PublicKey", "PrivateKey", "Signature"}

\* The base64 text of a sequence of bytes.
RECURSIVE base64_encode(_)
base64_encode(bytes) ==
    CASE Len(bytes) = 0 -> <<>>
      [] Len(bytes) = 1 -> <<bytes[1] \div 4, (bytes[1] % 4) * 16, 64, 64>>
      [] Len(bytes) = 2 -> <<bytes[1] \div 4,
                             (bytes[1] % 4) * 16 + bytes[2] \div 16,
                             (bytes[2] % 16) * 4,
                             64>>
      [] OTHER -> <<bytes[1] \div 4,
                    (bytes[1] % 4) * 16 + bytes[2] \div 16,
                    (bytes[2] % 16) * 4 + bytes[3] \div 64,
                    bytes[3] % 64>> \o base64_encode(SubSeq(bytes, 4, Len(bytes)))

\* The bytes of a base64 text.
RECURSIVE base64_decode(_)
base64_decode(digits) ==
    IF Len(digits) < 4 THEN <<>>
    ELSE IF digits[3] = 64
         THEN <<digits[1] * 4 + digits[2] \div 16>>
         ELSE IF digits[4] = 64
              THEN <<digits[1] * 4 + digits[2] \div 16,
                     (digits[2] % 16) * 16 + digits[3] \div 4>>
              ELSE <<digits[1] * 4 + digits[2] \div 16,
                     (digits[2] % 16) * 16 + digits[3] \div 4,
                     (digits[3] % 4) * 64 + digits[4]>>
                       \o base64_decode(SubSeq(digits, 5, Len(digits)))

\* to_armored_string with the default options: the block type, no header
\* line, the packets in base64.
armor(typ, bytes) ==
    [typ |-> Some(typ), headers |-> <<>>, body |-> base64_encode(bytes)]

\* char::is_whitespace, for the space and the tab.
is_whitespace(c) == c \in {9, 32}

\* str::trim
RECURSIVE trim(_)
trim(s) ==
    IF s = <<>> THEN s
    ELSE IF is_whitespace(s[1]) THEN trim(Tail(s))
    ELSE IF is_whitespace(s[Len(s)]) THEN trim(SubSeq(s, 1, Len(s) - 1))
    ELSE s

\* str::to_lowercase, for ASCII text.
to_lowercase(s) == [i \in 1..Len(s) |-> IF s[i] \in 65..90 THEN s[i] + 32 ELSE s[i]]

\* The order of String: byte by byte, a proper prefix first.
string_less(a, b) ==
    \E i \in 1..Len(b) :
        /\ \A j \in 1..(i - 1) : j <= Len(a) /\ a[j] = b[j]
        /\ i > Len(a) \/ a[i] < b[i]

\* The values of the header lines named `key`, in input order.
RECURSIVE header_values(_, _)
header_values(lines, key) ==
    IF lines = <<>> THEN <<>>
    ELSE (IF lines[1].name = key THEN <<lines[1].value>> ELSE <<>>)
            \o header_values(Tail(lines), key)

\* dearmor.headers: a map from each header name as written to its values.
dearmor_headers(lines) ==
    [key \in {lines[i].name : i \in 1..Len(lines)} |-> header_values(lines, key)]

\* `.into_iter()` of the map: its entries in the order of their keys.
RECURSIVE into_iter(_, _)
into_iter(map, keys) ==
    IF keys = {} THEN <<>>
    ELSE LET first == CHOOSE k \in keys : \A other \in keys \ {k} : string_less(k, other)
         IN  <<[key |-> first, values |-> map[first]]>> \o into_iter(map, keys \ {first})

\* The closure of `.map(..)`: the normalized name and the trimmed last value.
normalize_header(entry) ==
    [key |-> to_lowercase(trim(entry.key)),
     value |-> IF entry.values = <<>> THEN <<>>
               ELSE trim(entry.values[Len(entry.values)])]

\* `.collect()` into a map: a later entry replaces an earlier one of the
\* same key.
RECURSIVE collect(_, _)
collect(entries, map) ==
    IF entries = <<>> THEN map
    ELSE LET e == normalize_header(entries[1])
         IN  collect(Tail(entries),
                     [k \in DOMAIN map \cup {e.key} |-> IF k = e.key THEN e.value ELSE map[k]])

\* Variant: the body is handed back as it is written, in base64.
read_to_end_undecoded(buf) == buf.body

\* dearmor.read_to_end(&mut bytes)
read_to_end(buf) == base64_decode(buf.body)

split_armored_data(buf) ==
    IF buf.typ = None THEN Err("failed to parse type")
    ELSE Ok([typ |-> Unwrap(buf.typ),
             headers |-> collect(into_iter(dearmor_headers(buf.headers),
                                           DOMAIN dearmor_headers(buf.headers)),
                                 <<>>),
             bytes |-> read_to_end(buf)])

(************************ dispatch to the blocking pool **********************)

\* The entry points of the engine that an asynchronous task of the sources
\* calls: EncryptHelper::encrypt (pk_encrypt), EncryptHelper::sign
\* (pk_calc_signature), the tests' tasks (pk_decrypt,
\* valid_signature_fingerprints), and the two asynchronous functions of the
\* passphrase envelope.
EntryPoints ==
    {"pk_encrypt", "pk_calc_signature", "pk_decrypt", "valid_signature_fingerprints",
     "symm_encrypt", "symm_decrypt"}

\* The entry point wraps its work in spawn_blocking.
spawns_blocking(op) == op \in {"pk_encrypt", "symm_encrypt", "symm_decrypt"}

\* Where the work of an entry point is when the task has called it: queued
\* for the blocking pool, or running on the thread of the calling task.
dispatch(op) == IF spawns_blocking(op) THEN "queued" ELSE "caller"

(************************ ensure_secret_key_exists ****************************)

\* The identity store of an account: no address configured, an address
\* configured but no key pair yet, or a key pair stored.
IdentityStates == {"not_configured", "configured", "provisioned"}

\* key::load_self_public_key: the stored public key; for a configured
\* account without a key pair, the key pair is generated and stored first;
\* without a configured address the call fails.
load_self_public_key(store) ==
    IF store = "not_configured"
    THEN [ret |-> Err("ConfigurationError"), store |-> store]
    ELSE [ret |-> Ok(self_public_key), store |-> "provisioned"]

\* Variant: the error of the load is dropped.
ensure_secret_key_exists_error_dropped(store) ==
    [ret |-> Ok(<<>>), store |-> load_self_public_key(store).store]

\* ensure_secret_key_exists: `load_self_public_key(context).await?; Ok(())`.
ensure_secret_key_exists(store) ==
    IF load_self_public_key(store).ret.tag = "Err"
    THEN load_self_public_key(store)
    ELSE [ret |-> Ok(<<>>), store |-> load_self_public_key(store).store]

(************************ EncryptHelper::encrypt, ::sign ********************)

\* What write_part can do with a body: write all of it and return Ok, or
\* write the first k bytes and return Err.
WriteOutcomes(mail) ==
    {[ok |-> TRUE, written |-> Len(mail)]}
        \cup {[ok |-> FALSE, written |-> k] : k \in 0..Len(mail)}

\* `mail.clone().write_part(cursor).ok()`: the buffer afterwards. The Result
\* of write_part is dropped.
write_part_ok(mail, outcome) == SubSeq(mail, 1, outcome.written)

\* EncryptHelper::encrypt
helper_encrypt(secret, keyring, mail, outcome, compress) ==
    IF secret.tag = "Err" THEN secret
    ELSE pk_encrypt(write_part_ok(mail, outcome), keyring, Some(secret.value), compress)

\* EncryptHelper::sign
helper_sign(secret, mail, outcome) ==
    IF secret.tag = "Err" THEN secret
    ELSE pk_calc_signature(write_part_ok(mail, outcome), secret.value)

(***************************** inputs ***************************************)

OptionOf(S) == {None} \cup {Some(x) : x \in S}

\* The trust records an entry can carry: its preference drawn from prefs, and
\* each slot named in `free` either empty or filled. A slot not in `free` is as
\* in new_peerstates of the tests: primary keys present, no secondary key.
Peerstates(prefs, free) ==
    [prefer_encrypt : prefs,
     public_key : IF "public_key" \in free
                  THEN OptionOf({Key(1, "public_key")})
                  ELSE {Some(Key(1, "public_key"))},
     verified_key : IF "verified_key" \in free
                    THEN OptionOf({Key(1, "verified_key")})
                    ELSE {Some(Key(1, "verified_key"))},
     secondary_verified_key : IF "secondary_verified_key" \in free
                              THEN OptionOf({Key(1, "secondary_verified_key")})
                              ELSE {None},
     secondary_verifier : IF "secondary_verifier" \in free
                          THEN OptionOf(Addrs)
                          ELSE {None}]

Entries(prefs, free) ==
    [peerstate : OptionOf(Peerstates(prefs, free)), addr : Addrs]

\* The entry e moved to position i: its keys become the keys of position i.
EntryAt(i, e) ==
    IF IsSome(e.peerstate)
    THEN [e EXCEPT !.peerstate = Some(
            [Unwrap(e.peerstate) EXCEPT
               !.public_key = IF IsSome(@) THEN Some(Key(i, "public_key")) ELSE None,
               !.verified_key = IF IsSome(@) THEN Some(Key(i, "verified_key")) ELSE None,
               !.secondary_verified_key =
                   IF IsSome(@) THEN Some(Key(i, "secondary_verified_key")) ELSE None])]
    ELSE e

\* Every recipient list of n entries.
IsSnapshot(ps, n, prefs, free) ==
    \E s \in [1..n -> Entries(prefs, free)] :
        ps = [i \in 1..n |-> EntryAt(i, s[i])]

KeySlots == {"public_key", "verified_key", "secondary_verified_key", "secondary_verifier"}

(***************************** actions **************************************)

\* Policy inputs: the records of test_should_encrypt's new_peerstates (every
\* primary key present, no secondary key), with every preference, or no record.
InitPolicy ==
    /\ \E n \in 0..MaxRecipients : IsSnapshot(peerstates, n, EncryptPreference, {})
    /\ is_chatmail \in BOOLEAN
    /\ verified = FALSE
    /\ should_encrypt_ret = None
    /\ encryption_keyring_ret = None
    /\ NotE2eeIdle

\* Keyring inputs: every combination of present and absent keys and verifiers.
InitKeyring ==
    /\ \E n \in 0..MaxRecipients : IsSnapshot(peerstates, n, {"Mutual"}, KeySlots)
    /\ is_chatmail = FALSE
    /\ verified \in BOOLEAN
    /\ should_encrypt_ret = None
    /\ encryption_keyring_ret = None
    /\ NotE2eeIdle

ShouldEncrypt ==
    /\ should_encrypt_ret = None
    /\ should_encrypt_ret' = Some(should_encrypt(peerstates, is_chatmail))
    /\ UNCHANGED <<peerstates, is_chatmail, verified, encryption_keyring_ret, not_e2ee_vars>>

EncryptionKeyring ==
    /\ encryption_keyring_ret = None
    /\ encryption_keyring_ret' = Some(encryption_keyring(verified, peerstates))
    /\ UNCHANGED <<peerstates, is_chatmail, verified, should_encrypt_ret, not_e2ee_vars>>

NextPolicy == ShouldEncrypt

NextKeyring == EncryptionKeyring

SpecPolicy == InitPolicy /\ [][NextPolicy]_vars

SpecKeyring == InitKeyring /\ [][NextKeyring]_vars

(************************ the envelope engine's calls ************************)

\* Every list of at most MaxPgpKeys key owners.
KeyOwnerLists == UNION {[1..n -> KeyNames] : n \in 0..MaxPgpKeys}

PublicKeyLists == {[i \in DOMAIN s |-> SignedPublicKey(s[i])] : s \in KeyOwnerLists}

SecretKeyLists == {[i \in DOMAIN s |-> SignedSecretKey(s[i])] : s \in KeyOwnerLists}

\* An armored message that is signed but not encrypted.
unencrypted_armor(plain) ==
    [typ |-> "Message", headers |-> <<>>, packets |-> Signed("alice", Literal(plain))]

\* An armored block that is no signature.
malformed_signature == [typ |-> "Message", headers |-> <<>>, packets |-> Literal(<<>>)]

InitPgp ==
    /\ pgp_plain \in Plaintexts
    /\ pgp_keys \in PublicKeyLists
    /\ pgp_signer \in OptionOf({SignedSecretKey(n) : n \in KeyNames})
    /\ pgp_compress \in BOOLEAN
    /\ pgp_ctext = None
    /\ pgp_signature = None
    /\ pgp_decrypt = None
    /\ pgp_validate = None
    /\ NotPgpIdle

PkEncrypt ==
    /\ pgp_ctext = None
    /\ pgp_signature = None
    /\ pgp_ctext' = Some(pk_encrypt(pgp_plain, pgp_keys, pgp_signer, pgp_compress))
    /\ UNCHANGED <<not_pgp_vars, pgp_plain, pgp_keys, pgp_signer, pgp_compress,
                   pgp_signature, pgp_decrypt, pgp_validate>>

\* pk_decrypt of the ciphertext just produced, or of an unencrypted message.
PkDecrypt ==
    /\ IsSome(pgp_ctext)
    /\ pgp_decrypt = None
    /\ \E ctext \in {Unwrap(pgp_ctext).value, unencrypted_armor(pgp_plain)},
          skeys \in SecretKeyLists :
          pgp_decrypt' = Some([ctext |-> ctext, keys |-> skeys,
                               ret |-> pk_decrypt(ctext, skeys)])
    /\ UNCHANGED <<not_pgp_vars, pgp_plain, pgp_keys, pgp_signer, pgp_compress,
                   pgp_ctext, pgp_signature, pgp_validate>>

\* valid_signature_fingerprints of the decrypted message.
ValidSignatureFingerprints ==
    /\ IsSome(pgp_decrypt)
    /\ Unwrap(pgp_decrypt).ret.tag = "Ok"
    /\ pgp_validate = None
    /\ \E pkeys \in PublicKeyLists :
          pgp_validate' = Some([keys |-> pkeys,
                                ret |-> valid_signature_fingerprints(
                                            Unwrap(pgp_decrypt).ret.value, pkeys)])
    /\ UNCHANGED <<not_pgp_vars, pgp_plain, pgp_keys, pgp_signer, pgp_compress,
                   pgp_ctext, pgp_signature, pgp_decrypt>>

PkCalcSignature ==
    /\ pgp_ctext = None
    /\ pgp_signature = None
    /\ IsSome(pgp_signer)
    /\ pgp_signature' = Some(pk_calc_signature(pgp_plain, Unwrap(pgp_signer)))
    /\ UNCHANGED <<not_pgp_vars, pgp_plain, pgp_keys, pgp_signer, pgp_compress,
                   pgp_ctext, pgp_decrypt, pgp_validate>>

\* pk_validate of some content against the signature just produced, or
\* against a block that is no signature.
PkValidate ==
    /\ IsSome(pgp_signature)
    /\ pgp_validate = None
    /\ \E content \in Plaintexts,
          signature \in {Unwrap(pgp_signature).value, malformed_signature},
          pkeys \in PublicKeyLists :
          pgp_validate' = Some([content |-> content, signature |-> signature,
                                keys |-> pkeys,
                                ret |-> pk_validate(content, signature, pkeys)])
    /\ UNCHANGED <<not_pgp_vars, pgp_plain, pgp_keys, pgp_signer, pgp_compress,
                   pgp_ctext, pgp_signature, pgp_decrypt>>

NextPgp ==
    \/ PkEncrypt
    \/ PkDecrypt
    \/ ValidSignatureFingerprints
    \/ PkCalcSignature
    \/ PkValidate

SpecPgp == InitPgp /\ [][NextPgp]_vars

(************************ the helper's encrypt and sign **********************)

\* pgp_plain is the body to serialize, pgp_keys and pgp_compress the
\* arguments of encrypt.
InitHelper ==
    /\ pgp_plain \in Plaintexts
    /\ pgp_keys \in PublicKeyLists
    /\ pgp_compress \in BOOLEAN
    /\ helper_secret \in {Ok(SignedSecretKey("alice")), Err("ConfigurationError")}
    /\ helper_write \in WriteOutcomes(pgp_plain)
    /\ helper_ret = None
    /\ pgp_signer = None
    /\ pgp_ctext = None
    /\ pgp_signature = None
    /\ pgp_decrypt = None
    /\ pgp_validate = None
    /\ NotHelperIdle

HelperEncrypt ==
    /\ helper_ret = None
    /\ helper_ret' = Some([method |-> "encrypt",
                           ret |-> helper_encrypt(helper_secret, pgp_keys, pgp_plain,
                                                  helper_write, pgp_compress)])
    /\ UNCHANGED <<not_helper_vars, pgp_plain, pgp_keys, pgp_compress,
                   helper_secret, helper_write>>

HelperSign ==
    /\ helper_ret = None
    /\ helper_ret' = Some([method |-> "sign",
                           ret |-> helper_sign(helper_secret, pgp_plain, helper_write)])
    /\ UNCHANGED <<not_helper_vars, pgp_plain, pgp_keys, pgp_compress,
                   helper_secret, helper_write>>

NextHelper == HelperEncrypt \/ HelperSign

SpecHelper == InitHelper /\ [][NextHelper]_vars

(************************ the passphrase envelope's calls *********************)

\* Passphrases, the empty one and two that differ in case only among them.
Passphrases == {"", "foo", "Foo", "1234-5678"}

InitSymm ==
    /\ symm_plain \in Plaintexts
    /\ symm_passphrase \in {Some(p) : p \in Passphrases}
    /\ symm_ctext = None
    /\ symm_ret = None
    /\ NotSymmIdle

SymmEncrypt ==
    /\ symm_ctext = None
    /\ \E s2k \in Salts :
          symm_ctext' = Some(symm_encrypt(Unwrap(symm_passphrase), symm_plain, s2k))
    /\ UNCHANGED <<not_symm_vars, symm_plain, symm_passphrase, symm_ret>>

\* symm_decrypt of the ciphertext just produced, or of a message encrypted
\* to a public key only.
SymmDecrypt ==
    /\ IsSome(symm_ctext)
    /\ symm_ret = None
    /\ \E passphrase \in Passphrases,
          ctext \in {Unwrap(symm_ctext).value,
                     pk_encrypt(symm_plain, <<SignedPublicKey("alice")>>, None, FALSE).value} :
          symm_ret' = Some([passphrase |-> passphrase, ctext |-> ctext,
                            ret |-> symm_decrypt(passphrase, ctext)])
    /\ UNCHANGED <<not_symm_vars, symm_plain, symm_passphrase, symm_ctext>>

NextSymm == SymmEncrypt \/ SymmDecrypt

SpecSymm == InitSymm /\ [][NextSymm]_vars

(************************ the armor codec's calls *****************************)

\* "hello world", and its base64 text "aGVsbG8gd29ybGQ=".
HelloWorld == <<104, 101, 108, 108, 111, 32, 119, 111, 114, 108, 100>>

HelloWorldBase64 == <<26, 6, 21, 44, 27, 6, 60, 32, 29, 54, 61, 50, 27, 6, 16, 64>>

\* Packet data of every length modulo three.
PacketBytes == {<<193>>, <<193, 255>>, <<194, 0, 1>>, <<195, 4, 7, 255>>, HelloWorld}

\* Header names "a", "A", " a", "b" and header values "", "x", "y ".
HeaderNames == {<<97>>, <<65>>, <<32, 97>>, <<98>>}

HeaderValues == {<<>>, <<120>>, <<121, 32>>}

HeaderLines == [name : HeaderNames, value : HeaderValues]

\* What each entry point of the engine emits for a fixed input.
EmittedBlocks ==
    [pk_encrypt |-> pk_encrypt(<<104, 105>>, <<SignedPublicKey("alice")>>, None, FALSE).value,
     symm_encrypt |-> symm_encrypt("foo", <<104, 105>>, "salt1").value,
     pk_calc_signature |-> pk_calc_signature(<<104, 105>>, SignedSecretKey("alice")).value]

InitArmor ==
    /\ armor_buf = None
    /\ armor_bytes = None
    /\ armor_ret = None
    /\ NotArmorIdle

\* An entry point of the engine armors its packets.
ArmorEmit ==
    /\ armor_buf = None
    /\ \E emitter \in DOMAIN EmittedBlocks, bytes \in PacketBytes :
          /\ armor_buf' = Some(armor(EmittedBlocks[emitter].typ, bytes))
          /\ armor_bytes' = Some([emitter |-> emitter, bytes |-> bytes])
    /\ UNCHANGED <<not_armor_vars, armor_ret>>

\* An armored block arrives from outside, with header lines.
ArmorReceive ==
    /\ armor_buf = None
    /\ \E typ \in OptionOf(BlockTypes), n \in 0..MaxHeaders :
          \E headers \in [1..n -> HeaderLines] :
              armor_buf' = Some([typ |-> typ, headers |-> headers,
                                 body |-> HelloWorldBase64])
    /\ UNCHANGED <<not_armor_vars, armor_bytes, armor_ret>>

SplitArmoredData ==
    /\ IsSome(armor_buf)
    /\ armor_ret = None
    /\ armor_ret' = Some(split_armored_data(Unwrap(armor_buf)))
    /\ UNCHANGED <<not_armor_vars, armor_buf, armor_bytes>>

NextArmor == ArmorEmit \/ ArmorReceive \/ SplitArmoredData

SpecArmor == InitArmor /\ [][NextArmor]_vars

(************************ asynchronous tasks and the pool *********************)

\* The asynchronous tasks.
Tasks == {"task1", "task2"}

InitPool ==
    /\ task_op = [t \in Tasks |-> None]
    /\ task_at = [t \in Tasks |-> "idle"]
    /\ NotPoolIdle

\* A task calls an entry point.
TaskCall ==
    \E t \in Tasks, op \in EntryPoints :
        /\ task_at[t] = "idle"
        /\ task_op' = [task_op EXCEPT ![t] = Some(op)]
        /\ task_at' = [task_at EXCEPT ![t] = dispatch(op)]
        /\ UNCHANGED not_pool_vars

\* A thread of the blocking pool takes the closure; the task stays suspended
\* at the await.
PoolStart ==
    \E t \in Tasks :
        /\ task_at[t] = "queued"
        /\ task_at' = [task_at EXCEPT ![t] = "pool"]
        /\ UNCHANGED <<not_pool_vars, task_op>>

\* The closure returns and the await completes.
PoolFinish ==
    \E t \in Tasks :
        /\ task_at[t] = "pool"
        /\ task_at' = [task_at EXCEPT ![t] = "done"]
        /\ UNCHANGED <<not_pool_vars, task_op>>

\* An entry point that ran on the task's own thread returns.
InlineReturn ==
    \E t \in Tasks :
        /\ task_at[t] = "caller"
        /\ task_at' = [task_at EXCEPT ![t] = "done"]
        /\ UNCHANGED <<not_pool_vars, task_op>>

NextPool == TaskCall \/ PoolStart \/ PoolFinish \/ InlineReturn

SpecPool == InitPool /\ [][NextPool]_vars

(************************ sending one message *********************************)

\* A key that replaced the key of slot `slot` of recipient i in the store.
RotatedKey(i, slot, rev) == [of |-> i, slot |-> slot, rev |-> rev]

\* The updates a trust store applies to the record of one recipient: the
\* preference is reset, the keys are replaced, the record is dropped.
StoreUpdateKinds == {"reset", "rotate", "forget"}

updated_record(entry, i, kind, rev) ==
    IF ~IsSome(entry.peerstate) \/ kind = "forget"
    THEN [entry EXCEPT !.peerstate = None]
    ELSE IF kind = "reset"
         THEN [entry EXCEPT !.peerstate = Some([Unwrap(@) EXCEPT !.prefer_encrypt = "Reset"])]
         ELSE [entry EXCEPT !.peerstate = Some(
                 [Unwrap(@) EXCEPT !.public_key = Some(RotatedKey(i, "public_key", rev)),
                                   !.verified_key = Some(RotatedKey(i, "verified_key", rev))])]

\* The caller has loaded the trust records of the recipients once: the
\* snapshot `peerstates` is the store as it was then.
InitSend ==
    /\ \E n \in 1..MaxRecipients : IsSnapshot(trust_store, n, EncryptPreference, {})
    /\ store_updates = 0
    /\ peerstates = trust_store
    /\ is_chatmail \in BOOLEAN
    /\ verified \in BOOLEAN
    /\ should_encrypt_ret = None
    /\ encryption_keyring_ret = None
    /\ NotSendIdle

\* Another task changes the record of a recipient in the store.
TrustStoreUpdate ==
    /\ store_updates < MaxStoreUpdates
    /\ \E i \in 1..Len(trust_store), kind \in StoreUpdateKinds :
          trust_store' = [trust_store EXCEPT
                             ![i] = updated_record(@, i, kind, store_updates + 1)]
    /\ store_updates' = store_updates + 1
    /\ UNCHANGED <<e2ee_vars, not_send_vars>>

\* The keyring is built once the policy has said yes, from the same snapshot.
SendEncryptionKeyring ==
    /\ should_encrypt_ret = Some(TRUE)
    /\ EncryptionKeyring

NextSend == TrustStoreUpdate \/ ShouldEncrypt \/ SendEncryptionKeyring

SpecSend == InitSend /\ [][NextSend]_vars

(************************ policy, then keyring *********************************)

\* Both calls on one list of recipients: every preference, the primary keys
\* present or absent, a record or none.
InitCompose ==
    /\ \E n \in 0..MaxRecipients :
          IsSnapshot(peerstates, n, EncryptPreference, {"public_key", "verified_key"})
    /\ is_chatmail \in BOOLEAN
    /\ verified \in BOOLEAN
    /\ should_encrypt_ret = None
    /\ encryption_keyring_ret = None
    /\ NotE2eeIdle

NextCompose == ShouldEncrypt \/ EncryptionKeyring

SpecCompose == InitCompose /\ [][NextCompose]_vars

(************************ the identity store **********************************)

\* The accounts, each with its own identity store.
Accounts == {"alice", "bob", "fiona"}

InitIdentity ==
    /\ identity_store \in [Accounts -> IdentityStates]
    /\ ensure_history = [a \in Accounts |-> <<>>]
    /\ NotIdentityIdle

EnsureSecretKeyExists ==
    \E a \in Accounts :
        /\ Len(ensure_history[a]) < MaxEnsureCalls
        /\ LET call == ensure_secret_key_exists(identity_store[a])
           IN  /\ identity_store' = [identity_store EXCEPT ![a] = call.store]
               /\ ensure_history' = [ensure_history EXCEPT ![a] =
                      Append(@, [before |-> identity_store[a], ret |-> call.ret,
                                 after |-> call.store])]
        /\ UNCHANGED not_identity_vars

NextIdentity == EnsureSecretKeyExists

SpecIdentity == InitIdentity /\ [][NextIdentity]_vars

(************************ VoiceCallManager ************************************)

\* The ids that `format!("call_{}", Uuid::new_v4())` can produce.
CallIds == {<<"call", n>> : n \in 1..MaxCalls}

\* The node ids of remote peers.
Peers == {"peer_a", "peer_b"}

\* CallStatus
CallStatus == {"Ringing", "Connected", "Ended", "Failed"}

\* ActiveCall
ActiveCall(call_id, remote_peer_id, is_incoming, status) ==
    [call_id |-> call_id, remote_peer_id |-> remote_peer_id,
     is_incoming |-> is_incoming, status |-> status]

\* HashMap::insert
insert(calls, key, value) ==
    [k \in DOMAIN calls \cup {key} |-> IF k = key THEN value ELSE calls[k]]

\* HashMap::remove: the map without the key.
remove(calls, key) == [k \in DOMAIN calls \ {key} |-> calls[k]]

\* VoiceCallManager::start_call, with the id that Uuid::new_v4 produced.
start_call(calls, call_id, remote_peer_id) ==
    [calls |-> insert(calls, call_id, ActiveCall(call_id, remote_peer_id, FALSE, "Ringing")),
     ret |-> Ok(call_id)]

\* VoiceCallManager::simulate_incoming_call
simulate_incoming_call(calls, call_id, from_peer_id) ==
    [calls |-> insert(calls, call_id, ActiveCall(call_id, from_peer_id, TRUE, "Ringing")),
     ret |-> Ok(call_id)]

\* Mutant: an unknown id is inserted as a connected call.
accept_call_upsert(calls, call_id) ==
    IF call_id \in DOMAIN calls
    THEN [calls |-> [calls EXCEPT ![call_id].status = "Connected"], ret |-> Ok(<<>>)]
    ELSE [calls |-> insert(calls, call_id, ActiveCall(call_id, "peer_a", TRUE, "Connected")),
          ret |-> Ok(<<>>)]

\* VoiceCallManager::accept_call
accept_call(calls, call_id) ==
    IF call_id \in DOMAIN calls
    THEN [calls |-> [calls EXCEPT ![call_id].status = "Connected"], ret |-> Ok(<<>>)]
    ELSE [calls |-> calls, ret |-> Err("Call not found")]

\* Mutant: the call is marked Ended in the map instead of being removed.
end_call_marked_ended(calls, call_id) ==
    IF call_id \in DOMAIN calls
    THEN [calls |-> [calls EXCEPT ![call_id].status = "Ended"], ret |-> Ok(<<>>)]
    ELSE [calls |-> calls, ret |-> Err("Call not found")]

\* VoiceCallManager::end_call: the removed call is marked Ended and dropped.
end_call(calls, call_id) ==
    IF call_id \in DOMAIN calls
    THEN [calls |-> remove(calls, call_id), ret |-> Ok(<<>>)]
    ELSE [calls |-> calls, ret |-> Err("Call not found")]

\* VoiceCallManager::get_active_calls
get_active_calls(calls) == DOMAIN calls

\* VoiceCallManager::get_call_status
get_call_status(calls, call_id) ==
    IF call_id \in DOMAIN calls THEN Some(calls[call_id].status) ELSE None

\* VoiceCallManager::new
InitVoice ==
    /\ vc_active_calls = <<>>
    /\ vc_issued = {}
    /\ vc_ended = {}
    /\ vc_starts = 0
    /\ vc_ends = 0
    /\ NotVoiceIdle

StartCall ==
    \E call_id \in CallIds \ vc_issued, remote_peer_id \in Peers :
        /\ vc_active_calls' = start_call(vc_active_calls, call_id, remote_peer_id).calls
        /\ vc_issued' = vc_issued \cup {start_call(vc_active_calls, call_id, remote_peer_id).ret.value}
        /\ vc_starts' = vc_starts + 1
        /\ UNCHANGED <<vc_ended, vc_ends, not_voice_vars>>

SimulateIncomingCall ==
    \E call_id \in CallIds \ vc_issued, from_peer_id \in Peers :
        /\ vc_active_calls' = simulate_incoming_call(vc_active_calls, call_id, from_peer_id).calls
        /\ vc_issued' = vc_issued
              \cup {simulate_incoming_call(vc_active_calls, call_id, from_peer_id).ret.value}
        /\ vc_starts' = vc_starts + 1
        /\ UNCHANGED <<vc_ended, vc_ends, not_voice_vars>>

\* accept_call with the id of an active call, of an ended call, or of none.
AcceptCall ==
    \E call_id \in CallIds :
        /\ vc_active_calls' = accept_call(vc_active_calls, call_id).calls
        /\ UNCHANGED <<vc_issued, vc_ended, vc_starts, vc_ends, not_voice_vars>>

\* end_call with the id of an active call, of an ended call, or of none.
EndCall ==
    \E call_id \in CallIds :
        /\ vc_active_calls' = end_call(vc_active_calls, call_id).calls
        /\ IF end_call(vc_active_calls, call_id).ret.tag = "Ok"
           THEN vc_ended' = vc_ended \cup {call_id} /\ vc_ends' = vc_ends + 1
           ELSE UNCHANGED <<vc_ended, vc_ends>>
        /\ UNCHANGED <<vc_issued, vc_starts, not_voice_vars>>

NextVoice == StartCall \/ SimulateIncomingCall \/ AcceptCall \/ EndCall

SpecVoice == InitVoice /\ [][NextVoice]_vars

(************************ CallmeManager ***************************************)

\* The ids that `format!("callme_{}", Uuid::new_v4())` can produce.
CallmeIds == {<<"callme", n>> : n \in 1..MaxCalls}

\* The ids that `format!("callme_node_{}", Uuid::new_v4())` can produce.
NodeIds == {"callme_node_1", "callme_node_2"}

\* CallmeCall
CallmeCall(call_id, peer_node_id, status) ==
    [call_id |-> call_id, peer_node_id |-> peer_node_id, status |-> status]

\* CallmeManager::init
callme_init(node_id) == Some(node_id)

\* CallmeManager::start_call up to the spawn, with the id that Uuid::new_v4
\* produced; `spawned` says whether the connection task was spawned.
callme_start_call(node_id, calls, call_id, peer_node_id) ==
    IF node_id = None
    THEN [calls |-> calls, spawned |-> FALSE, ret |-> Err("Callme not initialized")]
    ELSE [calls |-> insert(calls, call_id, CallmeCall(call_id, peer_node_id, "Connecting")),
          spawned |-> TRUE,
          ret |-> Ok(call_id)]

\* Mutant: the task inserts the call when it is not in the map.
connection_task_upsert(calls, call_id) ==
    IF call_id \in DOMAIN calls
    THEN [calls |-> [calls EXCEPT ![call_id].status = "Connected"], at |-> "connected"]
    ELSE [calls |-> insert(calls, call_id, CallmeCall(call_id, "peer_a", "Connected")),
          at |-> "connected"]

\* The task that start_call spawns, after its sleep: under the write lock,
\* `if let Some(call) = calls.get_mut(&call_id_clone)`.
connection_task(calls, call_id) ==
    IF call_id \in DOMAIN calls
    THEN [calls |-> [calls EXCEPT ![call_id].status = "Connected"], at |-> "connected"]
    ELSE [calls |-> calls, at |-> "call_gone"]

\* CallmeManager::accept_call
callme_accept_call(calls, call_id) ==
    IF call_id \in DOMAIN calls
    THEN [calls |-> [calls EXCEPT ![call_id].status = "Connected"], ret |-> Ok(<<>>)]
    ELSE [calls |-> calls, ret |-> Err("Call not found")]

\* CallmeManager::end_call
callme_end_call(calls, call_id) ==
    IF call_id \in DOMAIN calls
    THEN [calls |-> remove(calls, call_id), ret |-> Ok(<<>>)]
    ELSE [calls |-> calls, ret |-> Err("Call not found")]

\* CallmeManager::get_active_calls
callme_get_active_calls(calls) == DOMAIN calls

\* CallmeManager::get_call_status
callme_get_call_status(calls, call_id) ==
    IF call_id \in DOMAIN calls THEN Ok(calls[call_id].status) ELSE Err("Call not found")

\* CallmeManager::new
InitCallme ==
    /\ cm_node_id = None
    /\ cm_active_calls = <<>>
    /\ cm_tasks = <<>>
    /\ cm_ended = {}
    /\ NotCallmeIdle

CallmeInit ==
    \E node_id \in NodeIds :
        /\ cm_node_id' = callme_init(node_id)
        /\ UNCHANGED <<cm_active_calls, cm_tasks, cm_ended, not_callme_vars>>

\* start_call: the call is inserted and its connection task starts to sleep.
CallmeStartCall ==
    \E call_id \in CallmeIds \ DOMAIN cm_tasks, peer_node_id \in Peers :
        LET call == callme_start_call(cm_node_id, cm_active_calls, call_id, peer_node_id)
        IN  /\ cm_active_calls' = call.calls
            /\ cm_tasks' = IF call.spawned
                           THEN insert(cm_tasks, call_id, "sleeping")
                           ELSE cm_tasks
            /\ UNCHANGED <<cm_node_id, cm_ended, not_callme_vars>>

\* The sleep of a connection task is over and it holds the write lock.
ConnectionTask ==
    \E call_id \in DOMAIN cm_tasks :
        /\ cm_tasks[call_id] = "sleeping"
        /\ cm_active_calls' = connection_task(cm_active_calls, call_id).calls
        /\ cm_tasks' = [cm_tasks EXCEPT
                           ![call_id] = connection_task(cm_active_calls, call_id).at]
        /\ UNCHANGED <<cm_node_id, cm_ended, not_callme_vars>>

CallmeAcceptCall ==
    \E call_id \in CallmeIds :
        /\ cm_active_calls' = callme_accept_call(cm_active_calls, call_id).calls
        /\ UNCHANGED <<cm_node_id, cm_tasks, cm_ended, not_callme_vars>>

CallmeEndCall ==
    \E call_id \in CallmeIds :
        /\ cm_active_calls' = callme_end_call(cm_active_calls, call_id).calls
        /\ cm_ended' = IF callme_end_call(cm_active_calls, call_id).ret.tag = "Ok"
                       THEN cm_ended \cup {call_id}
                       ELSE cm_ended
        /\ UNCHANGED <<cm_node_id, cm_tasks, not_callme_vars>>

NextCallme ==
    CallmeInit \/ CallmeStartCall \/ ConnectionTask \/ CallmeAcceptCall \/ CallmeEndCall

SpecCallme == InitCallme /\ [][NextCallme]_vars

(************************ Session::prefetch ***********************************)

\* The INTERNALDATE values of the messages.
InternalDates == {10, 20}

\* async_imap::types::Fetch, as far as prefetch reads it: `uid` and
\* `internal_date()`, each absent when the response does not carry the item.
Fetches == [uid : OptionOf(1..MaxUid), internal_date : OptionOf(InternalDates)]

\* What `list.try_next().await` yields for one response: a Fetch, or the
\* error of the stream.
FetchItems == {Ok(f) : f \in Fetches} \cup {Err("IMAP stream error")}

\* Ord of Option<T>: None is less than every Some.
option_less(a, b) ==
    IF a = None THEN b /= None
    ELSE b /= None /\ Unwrap(a) < Unwrap(b)

\* Ord of the key tuple (Option<DateTime>, u32).
key_less(a, b) ==
    \/ option_less(a[1], b[1])
    \/ (a[1] = b[1] /\ a[2] < b[2])

\* BTreeMap::insert: the value of an existing key is replaced.
btree_insert(msgs, key, msg) ==
    [k \in DOMAIN msgs \cup {key} |-> IF k = key THEN msg ELSE msgs[k]]

\* The body of the `while let` loop.
insert_fetched(uid_next, msg, msgs) ==
    IF IsSome(msg.uid) /\ Unwrap(msg.uid) >= uid_next
    THEN btree_insert(msgs, <<msg.internal_date, Unwrap(msg.uid)>>, msg)
    ELSE msgs

\* The `while let Some(msg) = list.try_next().await?` loop.
RECURSIVE fetch_loop(_, _, _, _)
fetch_loop(uid_next, list, i, msgs) ==
    IF i > Len(list) THEN Ok(msgs)
    ELSE IF list[i].tag = "Err" THEN list[i]
         ELSE fetch_loop(uid_next, list, i + 1, insert_fetched(uid_next, list[i].value, msgs))

\* msgs.into_iter().map(|((_, uid), msg)| (uid, msg)).collect(): the entries
\* in the order of their keys.
RECURSIVE msgs_into_iter(_)
msgs_into_iter(msgs) ==
    IF DOMAIN msgs = {} THEN <<>>
    ELSE LET first == CHOOSE k \in DOMAIN msgs :
                          \A other \in DOMAIN msgs \ {k} : key_less(k, other)
         IN  <<(<<first[2], msgs[first]>>)>>
                 \o msgs_into_iter([k \in DOMAIN msgs \ {first} |-> msgs[k]])

\* Session::prefetch, given the responses of the server to the UID FETCH.
prefetch(uid_next, list) ==
    IF fetch_loop(uid_next, list, 1, <<>>).tag = "Err"
    THEN fetch_loop(uid_next, list, 1, <<>>)
    ELSE Ok(msgs_into_iter(fetch_loop(uid_next, list, 1, <<>>).value))

\* A session with a selected mailbox: the server answers the UID FETCH with
\* any responses, in any order.
InitImap ==
    /\ imap_uid_next \in 1..(MaxUid + 1)
    /\ \E n \in 0..MaxFetched : imap_list \in [1..n -> FetchItems]
    /\ imap_ret = None
    /\ NotImapIdle

Prefetch ==
    /\ imap_ret = None
    /\ imap_ret' = Some(prefetch(imap_uid_next, imap_list))
    /\ UNCHANGED <<imap_uid_next, imap_list, not_imap_vars>>

NextImap == Prefetch

SpecImap == InitImap /\ [][NextImap]_vars

(***************************** claims ***************************************)

Recipients == 1..Len(peerstates)

HasPeerstate(i) == IsSome(peerstates[i].peerstate)

PreferEncrypt(i) == Unwrap(peerstates[i].peerstate).prefer_encrypt

ShouldEncryptReturned == IsSome(should_encrypt_ret)

KeyringReturned == IsSome(encryption_keyring_ret)

KeyringRet == Unwrap(encryption_keyring_ret)

KeyringOk == KeyringReturned /\ KeyringRet.tag = "Ok"

KeyringErr == KeyringReturned /\ KeyringRet.tag = "Err"

\* The keyring and the missing-key set of a successful call.
RetKeyring == IF KeyringOk THEN KeyringRet.value[1] ELSE <<>>

RetMissing == IF KeyringOk THEN KeyringRet.value[2] ELSE {}

\* Recipient i's record exists and yields a key at the requested trust level.
YieldsKey(i) ==
    /\ HasPeerstate(i)
    /\ IsSome(take_key(Unwrap(peerstates[i].peerstate), verified))

\* The addresses whose primary (step 2) key is in the returned keyring.
ContributingAddrs ==
    {peerstates[k.of].addr :
        k \in {x \in Range(RetKeyring) : x.slot \in {"public_key", "verified_key"}}}

\* C1: should_encrypt returns false whenever some recipient has no trust
\* record, at every position, whatever the others prefer and whatever the
\* transport's mandatory-encryption flag.
C1_MissingPeerstateIsFalse ==
    (ShouldEncryptReturned /\ \E i \in Recipients : ~HasPeerstate(i))
        => Unwrap(should_encrypt_ret) = FALSE

C1_Witness ==
    /\ ShouldEncryptReturned
    /\ is_chatmail
    /\ Len(peerstates) = 2
    /\ HasPeerstate(1) /\ PreferEncrypt(1) = "Mutual"
    /\ ~HasPeerstate(2)
    /\ Unwrap(should_encrypt_ret) = FALSE

\* C2: on a mandatory-encryption transport should_encrypt returns true when
\* every recipient has a trust record, whatever the recorded preferences.
C2_ChatmailIgnoresPreference ==
    (ShouldEncryptReturned /\ is_chatmail /\ \A i \in Recipients : HasPeerstate(i))
        => Unwrap(should_encrypt_ret) = TRUE

C2_Witness ==
    /\ ShouldEncryptReturned
    /\ is_chatmail
    /\ Len(peerstates) = 2
    /\ \A i \in Recipients : HasPeerstate(i) /\ PreferEncrypt(i) = "Reset"
    /\ Unwrap(should_encrypt_ret) = TRUE

\* C3: without a mandatory-encryption transport should_encrypt returns true
\* exactly when every recipient has a trust record whose preference is not
\* Reset (so true for the empty list, false with a single Reset).
C3_NoChatmailIffNoReset ==
    (ShouldEncryptReturned /\ ~is_chatmail)
        => (Unwrap(should_encrypt_ret) = TRUE
              <=> \A i \in Recipients : HasPeerstate(i) /\ PreferEncrypt(i) /= "Reset")

C3_Witness ==
    /\ ShouldEncryptReturned
    /\ ~is_chatmail
    /\ Len(peerstates) = 2
    /\ HasPeerstate(1) /\ PreferEncrypt(1) = "Mutual"
    /\ HasPeerstate(2) /\ PreferEncrypt(2) = "Reset"
    /\ Unwrap(should_encrypt_ret) = FALSE

\* C4: a call with a non-empty recipient list in which no recipient yields a
\* key fails with NoRecipientKeys (no keyring, no missing-key set), and no
\* successful call on a non-empty list returns only the local identity's key.
C4_NoKeysIsError ==
    /\ (KeyringReturned /\ Len(peerstates) > 0 /\ \A i \in Recipients : ~YieldsKey(i))
          => KeyringErr
    /\ (KeyringOk /\ Len(peerstates) > 0) => Len(RetKeyring) >= 2

C4_Witness ==
    /\ KeyringErr
    /\ verified
    /\ Len(peerstates) = 2
    /\ ~HasPeerstate(1)
    /\ HasPeerstate(2) /\ ~YieldsKey(2)
    /\ IsSome(Unwrap(peerstates[2].peerstate).public_key)

\* C5: every keyring a successful call returns has the local identity's
\* public key as its first element.
C5_SelfKeyFirst ==
    KeyringOk => (Len(RetKeyring) >= 1 /\ RetKeyring[1] = self_public_key)

C5_Witness ==
    /\ KeyringOk
    /\ verified
    /\ Len(RetKeyring) >= 3
    /\ RetKeyring[1] = self_public_key
    /\ \E i \in 2..Len(RetKeyring) : RetKeyring[i].slot = "secondary_verified_key"

C7_SecondaryKeyIffVerifierIsRecipient ==
    (KeyringReturned /\ verified) =>
        \A i \in Recipients :
            Key(i, "secondary_verified_key") \in Range(RetKeyring)
                <=> /\ HasPeerstate(i)
                    /\ IsSome(Unwrap(peerstates[i].peerstate).secondary_verified_key)
                    /\ IsSome(Unwrap(peerstates[i].peerstate).secondary_verifier)
                    /\ \E j \in Recipients :
                          /\ YieldsKey(j)
                          /\ peerstates[j].addr =
                                Unwrap(Unwrap(peerstates[i].peerstate).secondary_verifier)

C7_Witness ==
    /\ KeyringOk
    /\ verified
    /\ Len(peerstates) = 2
    /\ peerstates[1].addr /= peerstates[2].addr
    /\ YieldsKey(1)
    /\ HasPeerstate(2)
    /\ Unwrap(peerstates[2].peerstate).secondary_verifier = Some(peerstates[1].addr)
    /\ Key(2, "secondary_verified_key") \in Range(RetKeyring)
    /\ Key(1, "secondary_verified_key") \notin Range(RetKeyring)

\* C8: a call with an empty recipient list succeeds with exactly the local
\* identity's key and an empty missing-key set, in both trust modes.
C8_EmptyRecipientsSelfOnly ==
    (KeyringReturned /\ Len(peerstates) = 0)
        => KeyringRet = Ok(<<(<<self_public_key>>), {}>>)

C8_Witness ==
    /\ KeyringOk
    /\ verified
    /\ Len(peerstates) = 0
    /\ RetKeyring = <<self_public_key>>
    /\ RetMissing = {}

\* C9 as stated: a call with exactly one recipient that has no trust record
\* returns a keyring of one key and a missing-key set holding that address.
C9_SingleMissingRecipientReturnsKeyring ==
    (KeyringReturned /\ Len(peerstates) = 1 /\ ~HasPeerstate(1))
        => /\ KeyringOk
           /\ RetKeyring = <<self_public_key>>
           /\ RetMissing = {peerstates[1].addr}

\* C9 as amended: that call itself fails with NoRecipientKeys and returns
\* neither a keyring nor a missing-key set.
C9_SingleMissingRecipientIsError ==
    (KeyringReturned /\ Len(peerstates) = 1 /\ ~HasPeerstate(1))
        => KeyringRet = Err("No recipient keys are available, cannot encrypt")

C9_Witness ==
    /\ KeyringErr
    /\ ~verified
    /\ Len(peerstates) = 1
    /\ ~HasPeerstate(1)

\* C10: when at least one recipient yields a key the call succeeds and the
\* missing-key set is exactly the addresses of the recipients that yield
\* none; the call fails only when the list is non-empty and nobody yields one.
C10_MissingKeysAreData ==
    /\ (KeyringReturned /\ \E i \in Recipients : YieldsKey(i))
          => /\ KeyringOk
             /\ RetMissing = {peerstates[i].addr : i \in {j \in Recipients : ~YieldsKey(j)}}
    /\ KeyringErr
          => /\ Len(peerstates) > 0
             /\ \A i \in Recipients : ~YieldsKey(i)
             /\ KeyringRet.value = "No recipient keys are available, cannot encrypt"

C10_Witness ==
    /\ KeyringOk
    /\ verified
    /\ Len(peerstates) = 2
    /\ peerstates[1].addr /= peerstates[2].addr
    /\ HasPeerstate(1) /\ ~YieldsKey(1)
    /\ YieldsKey(2)
    /\ RetMissing = {peerstates[1].addr}

(************************ claims on the envelope engine **********************)

\* The owners of a list of keys.
Owners(keys) == {keys[i].fingerprint : i \in 1..Len(keys)}

\* The key of this owner has a subkey flagged as an encryption key.
HasEncryptionSubkey(name) ==
    \E i \in 1..Len(Subkeys(name)) : Subkeys(name)[i].is_encryption_key

\* pk_decrypt has been called on the ciphertext that pk_encrypt produced.
DecryptedProduced ==
    /\ IsSome(pgp_ctext)
    /\ IsSome(pgp_decrypt)
    /\ Unwrap(pgp_decrypt).ctext = Unwrap(pgp_ctext).value

\* pk_decrypt returned a message whose content is `plain`.
DecryptReturned(plain) ==
    /\ Unwrap(pgp_decrypt).ret.tag = "Ok"
    /\ as_data_vec(Unwrap(pgp_decrypt).ret.value) = Ok(plain)

\* valid_signature_fingerprints has been called on the decrypted message.
InlineValidated == IsSome(pgp_decrypt) /\ IsSome(pgp_validate)

\* pk_validate has been called on a signature that pk_calc_signature produced.
DetachedValidated ==
    /\ IsSome(pgp_signature)
    /\ IsSome(pgp_validate)
    /\ Unwrap(pgp_validate).signature = Unwrap(pgp_signature).value

\* C12 (as stated): for every non-empty recipient key list and plaintext P,
\* decrypting the unsigned output of pk_encrypt with the secret key of any
\* one recipient returns P, for both values of compress.
C12_RoundTripAnyRecipient ==
    (/\ DecryptedProduced
     /\ pgp_signer = None
     /\ Owners(Unwrap(pgp_decrypt).keys) \cap Owners(pgp_keys) /= {})
        => DecryptReturned(pgp_plain)

\* C12 (amended): the round trip holds when the decrypting ring holds the
\* secret key of a recipient whose public key has an encryption-capable
\* subkey; recipients without one are skipped by pk_encrypt.
C12_RoundTripCapableRecipient ==
    (/\ DecryptedProduced
     /\ pgp_signer = None
     /\ \E name \in Owners(Unwrap(pgp_decrypt).keys) \cap Owners(pgp_keys) :
           HasEncryptionSubkey(name))
        => DecryptReturned(pgp_plain)

\* The second of two recipients decrypts a non-empty plaintext, compress set.
C12_Witness ==
    /\ DecryptedProduced
    /\ pgp_signer = None
    /\ pgp_compress
    /\ pgp_plain /= <<>>
    /\ Owners(pgp_keys) = {"alice", "bob"}
    /\ pgp_keys[2].fingerprint = "bob"
    /\ Owners(Unwrap(pgp_decrypt).keys) = {"bob"}
    /\ DecryptReturned(pgp_plain)

\* C13: for a message encrypted and signed inline by S,
\* valid_signature_fingerprints on the decrypted message returns exactly
\* {fingerprint(S)} when the candidates include S's public key and the empty
\* set when they do not, whichever recipient's secret key decrypted.
C13_SignerFingerprintExactly ==
    (/\ DecryptedProduced
     /\ InlineValidated
     /\ IsSome(pgp_signer))
        => Unwrap(pgp_validate).ret =
              Ok({Unwrap(pgp_signer).fingerprint} \cap Owners(Unwrap(pgp_validate).keys))

\* A compressed message signed by alice, decrypted by bob, validated against
\* candidates that include alice and another key.
C13_Witness ==
    /\ DecryptedProduced
    /\ InlineValidated
    /\ pgp_signer = Some(SignedSecretKey("alice"))
    /\ pgp_compress
    /\ Owners(Unwrap(pgp_decrypt).keys) = {"bob"}
    /\ Owners(Unwrap(pgp_validate).keys) = {"alice", "bob"}
    /\ Unwrap(pgp_validate).ret = Ok({"alice"})

\* C14: valid_signature_fingerprints and pk_validate (on a well-formed
\* signature) never return an error; the result is the empty set for an
\* unsigned message or when no candidate key verifies, and every fingerprint
\* in a result belongs to a supplied candidate key.
C14_AbsentOrInvalidSignatureIsEmptySet ==
    /\ (DecryptedProduced /\ InlineValidated) =>
          /\ Unwrap(pgp_validate).ret.tag = "Ok"
          /\ Unwrap(pgp_validate).ret.value \subseteq Owners(Unwrap(pgp_validate).keys)
          /\ (\/ pgp_signer = None
              \/ Unwrap(pgp_signer).fingerprint \notin Owners(Unwrap(pgp_validate).keys))
                 => Unwrap(pgp_validate).ret.value = {}
    /\ DetachedValidated =>
          /\ Unwrap(pgp_validate).ret.tag = "Ok"
          /\ Unwrap(pgp_validate).ret.value \subseteq Owners(Unwrap(pgp_validate).keys)
          /\ (\/ Unwrap(pgp_validate).content /= pgp_plain
              \/ Unwrap(pgp_signer).fingerprint \notin Owners(Unwrap(pgp_validate).keys))
                 => Unwrap(pgp_validate).ret.value = {}

\* An unsigned message validated against two candidates gives the empty set.
C14_Witness ==
    /\ DecryptedProduced
    /\ InlineValidated
    /\ pgp_signer = None
    /\ Len(Unwrap(pgp_validate).keys) = 2
    /\ Unwrap(pgp_validate).ret = Ok({})

\* C15: pk_decrypt fails, returning no message, whenever no candidate secret
\* key corresponds to a key the ciphertext was encrypted to, the empty
\* candidate list included.
C15_NoMatchingKeyFails ==
    (/\ IsSome(pgp_decrypt)
     /\ \/ ~DecryptedProduced
        \/ ~\E name \in Owners(Unwrap(pgp_decrypt).keys) \cap Owners(pgp_keys) :
               HasEncryptionSubkey(name))
        => Unwrap(pgp_decrypt).ret.tag = "Err"

\* A ciphertext for alice, a ring that holds bob's secret key only.
C15_Witness ==
    /\ DecryptedProduced
    /\ Owners(pgp_keys) = {"alice"}
    /\ Owners(Unwrap(pgp_decrypt).keys) = {"bob"}
    /\ Unwrap(pgp_decrypt).ret.tag = "Err"

\* symm_decrypt has been called on the ciphertext that symm_encrypt produced.
SymmDecryptedProduced ==
    /\ IsSome(symm_ctext)
    /\ IsSome(symm_ret)
    /\ Unwrap(symm_ret).ctext = Unwrap(symm_ctext).value

\* C16: symm_decrypt(passphrase, symm_encrypt(passphrase, plain)) returns
\* the plaintext, and symm_decrypt with any different passphrase fails
\* instead of returning data.
C16_SymmetricRoundTrip ==
    SymmDecryptedProduced =>
        IF Unwrap(symm_ret).passphrase = Unwrap(symm_passphrase)
        THEN Unwrap(symm_ret).ret = Ok(symm_plain)
        ELSE Unwrap(symm_ret).ret.tag = "Err"

\* A non-empty plaintext under a non-empty passphrase comes back.
C16_Witness ==
    /\ SymmDecryptedProduced
    /\ symm_plain /= <<>>
    /\ symm_passphrase = Some("foo")
    /\ Unwrap(symm_ret).passphrase = "foo"
    /\ Unwrap(symm_ret).ret = Ok(symm_plain)

\* A passphrase that differs in letter case only is refused.
C16_WitnessWrongPassphrase ==
    /\ SymmDecryptedProduced
    /\ symm_passphrase = Some("foo")
    /\ Unwrap(symm_ret).passphrase = "Foo"
    /\ Unwrap(symm_ret).ret.tag = "Err"

(************************ claims on the armor codec **************************)

\* split_armored_data has returned the parts of a block.
SplitOk == IsSome(armor_ret) /\ Unwrap(armor_ret).tag = "Ok"

\* The header lines of the block that was split.
InputHeaders == Unwrap(armor_buf).headers

\* The header map that was returned.
RetHeaders == Unwrap(armor_ret).value.headers

\* The normalized name of the i-th header line.
NormalizedName(i) == to_lowercase(trim(InputHeaders[i].name))

\* The last header line whose normalized name is `key`.
LastOccurrence(key) ==
    CHOOSE i \in 1..Len(InputHeaders) :
        /\ NormalizedName(i) = key
        /\ \A j \in (i + 1)..Len(InputHeaders) : NormalizedName(j) /= key

\* C17: the keys of the returned header map are the lower-cased, trimmed
\* header names of the input, and each key maps to the trimmed value of the
\* last input line whose name normalizes to it.
C17_LastOccurrenceWins ==
    SplitOk =>
        /\ DOMAIN RetHeaders = {NormalizedName(i) : i \in 1..Len(InputHeaders)}
        /\ \A key \in DOMAIN RetHeaders :
              RetHeaders[key] = trim(InputHeaders[LastOccurrence(key)].value)

C19_NeverOnCallerThread == \A t \in DOMAIN task_at : task_at[t] /= "caller"

\* The keys held by the record of recipient i in the snapshot.
SnapshotKeys(i) ==
    IF HasPeerstate(i)
    THEN Range(Unwrap(peerstates[i].peerstate).public_key)
            \cup Range(Unwrap(peerstates[i].peerstate).verified_key)
            \cup Range(Unwrap(peerstates[i].peerstate).secondary_verified_key)
    ELSE {}

\* The record of recipient i in the snapshot is one that the policy lets
\* pass.
SnapshotRecordPasses(i) ==
    /\ HasPeerstate(i)
    /\ (is_chatmail \/ PreferEncrypt(i) /= "Reset")

\* C20: with both calls on one snapshot, under every interleaving of
\* trust-store updates, every recipient key of the keyring comes from a
\* record of the snapshot that should_encrypt examined and let pass; an
\* update of the store between the calls does not alter the keys selected.
C20_KeysFromPassedSnapshotRecords ==
    (should_encrypt_ret = Some(TRUE) /\ KeyringOk) =>
        /\ \A key \in Range(RetKeyring) \ {self_public_key} :
              \E i \in Recipients : key \in SnapshotKeys(i) /\ SnapshotRecordPasses(i)
        /\ \A i \in Recipients : SnapshotRecordPasses(i)
        /\ KeyringRet = encryption_keyring(verified, peerstates)

\* The keys of the first recipient were replaced in the store between the
\* two calls; the keyring holds the key of the snapshot.
C20_Witness ==
    /\ should_encrypt_ret = Some(TRUE)
    /\ KeyringOk
    /\ store_updates > 0
    /\ IsSome(trust_store[1].peerstate)
    /\ Unwrap(trust_store[1].peerstate).public_key = Some(RotatedKey(1, "public_key", 1))
    /\ Key(1, "public_key") \in Range(RetKeyring)
    /\ RotatedKey(1, "public_key", 1) \notin Range(RetKeyring)

(************************ claims on the identity store ************************)

\* C21: ensure_secret_key_exists succeeds when an identity is provisioned
\* and fails when the account is not configured, and it is idempotent:
\* every later call returns what the first call returned and leaves the
\* identity store as the first call left it.
C21_EnsureIsIdempotent ==
    \A a \in DOMAIN ensure_history :
        \A i \in 1..Len(ensure_history[a]) :
            /\ ensure_history[a][1].before = "provisioned"
                  => ensure_history[a][1].ret.tag = "Ok"
            /\ ensure_history[a][1].before = "not_configured"
                  => ensure_history[a][1].ret.tag = "Err"
            /\ ensure_history[a][i].ret = ensure_history[a][1].ret
            /\ ensure_history[a][i].after = ensure_history[a][1].after
            /\ identity_store[a] = ensure_history[a][1].after

\* Two calls on a provisioned account and two on an account that is not
\* configured.
C21_Witness ==
    /\ Len(ensure_history["alice"]) = 2
    /\ ensure_history["alice"][1].before = "provisioned"
    /\ ensure_history["alice"][2].ret.tag = "Ok"
    /\ Len(ensure_history["bob"]) = 2
    /\ ensure_history["bob"][1].before = "not_configured"
    /\ ensure_history["bob"][2].ret.tag = "Err"

(************************ claims on the keyring, continued ********************)

\* The keys that recipients i.. yield at the requested trust level, in
\* recipient order.
RECURSIVE YieldedKeysFrom(_)
YieldedKeysFrom(i) ==
    IF i > Len(peerstates) THEN <<>>
    ELSE (IF YieldsKey(i)
          THEN <<Unwrap(take_key(Unwrap(peerstates[i].peerstate), verified))>>
          ELSE <<>>) \o YieldedKeysFrom(i + 1)

\* Recipient i carries a secondary verified key whose introducer is a
\* recipient that yields a key.
SecondaryKeyIntroducedByContributor(i) ==
    /\ HasPeerstate(i)
    /\ IsSome(Unwrap(peerstates[i].peerstate).secondary_verified_key)
    /\ IsSome(Unwrap(peerstates[i].peerstate).secondary_verifier)
    /\ \E j \in Recipients :
          /\ YieldsKey(j)
          /\ peerstates[j].addr = Unwrap(Unwrap(peerstates[i].peerstate).secondary_verifier)

\* C22: when no verified key is required, a successful encryption_keyring
\* never adds a secondary verified key: the keyring is exactly the self key
\* followed by the key of each recipient that yielded one, in recipient
\* order, also when a recipient's verifier is a contributing recipient.
C22_NonVerifiedHasNoSecondaryKeys ==
    (KeyringOk /\ ~verified) =>
        /\ RetKeyring = <<self_public_key>> \o YieldedKeysFrom(1)
        /\ \A k \in Range(RetKeyring) : k = self_public_key \/ k.slot = "public_key"

\* Two recipients yield a key; the second carries a secondary key that the
\* first introduced.
C22_Witness ==
    /\ KeyringOk
    /\ ~verified
    /\ Len(peerstates) = 2
    /\ YieldsKey(1) /\ YieldsKey(2)
    /\ SecondaryKeyIntroducedByContributor(2)
    /\ RetKeyring = <<self_public_key, Key(1, "public_key"), Key(2, "public_key")>>

\* C27: when a verified key is required, a recipient whose address is in the
\* missing-key set never has its secondary verified key in the keyring: no
\* key of an address reported as missing is an encryption target.
C27_MissingRecipientHasNoKeyInKeyring ==
    (KeyringOk /\ verified) =>
        \A i \in Recipients :
            (~YieldsKey(i) /\ peerstates[i].addr \in RetMissing)
                => Key(i, "secondary_verified_key") \notin Range(RetKeyring)

\* C28: on a recipient list for which should_encrypt returns true every
\* recipient has a trust record, so encryption_keyring on the same list puts
\* an address in the missing-key set only when that recipient's record
\* yields no key at the requested trust level, never for an absent record.
C28_MissingOnlyForKeylessRecords ==
    (should_encrypt_ret = Some(TRUE) /\ KeyringReturned) =>
        /\ \A i \in Recipients : HasPeerstate(i)
        /\ KeyringOk => RetMissing =
              {peerstates[i].addr :
                  i \in {j \in Recipients :
                            /\ HasPeerstate(j)
                            /\ take_key(Unwrap(peerstates[j].peerstate), verified) = None}}

\* The policy said yes; the first recipient has a record without a verified
\* key and is reported missing, the second yields its verified key.
C28_Witness ==
    /\ should_encrypt_ret = Some(TRUE)
    /\ KeyringOk
    /\ verified
    /\ Len(peerstates) = 2
    /\ peerstates[1].addr /= peerstates[2].addr
    /\ HasPeerstate(1) /\ ~YieldsKey(1)
    /\ IsSome(Unwrap(peerstates[1].peerstate).public_key)
    /\ YieldsKey(2)
    /\ RetMissing = {peerstates[1].addr}

(************************ claims on pk_encrypt *********************************)

\* The message that pk_encrypt encrypted: what is inside the session-key
\* encryption of the block it returned.
EncryptedPayload == Unwrap(pgp_ctext).value.packets.inner

\* The session-key packets of the block that pk_encrypt returned.
EncryptedRecipients == Unwrap(pgp_ctext).value.packets.pkesk

\* The position of the first subkey of the key that is flagged as an
\* encryption key, 0 when there is none.
FirstEncryptionSubkey(key) ==
    IF \E i \in 1..Len(key.public_subkeys) : key.public_subkeys[i].is_encryption_key
    THEN CHOOSE i \in 1..Len(key.public_subkeys) :
            /\ key.public_subkeys[i].is_encryption_key
            /\ \A j \in 1..(i - 1) : ~key.public_subkeys[j].is_encryption_key
    ELSE 0

\* C23: pk_encrypt compresses only when a signing key is supplied and the
\* compress flag is set; without a signing key the flag has no effect and
\* the message is built uncompressed and unsigned.
C23_CompressionOnlyWhenSigned ==
    IsSome(pgp_ctext) =>
        /\ Unwrap(pgp_ctext).tag = "Ok"
        /\ EncryptedPayload.type = "Compressed" <=> (IsSome(pgp_signer) /\ pgp_compress)
        /\ pgp_signer = None => EncryptedPayload = Literal(pgp_plain)
        /\ (IsSome(pgp_signer) /\ ~pgp_compress)
              => EncryptedPayload = Signed(Unwrap(pgp_signer).fingerprint, Literal(pgp_plain))
        /\ (IsSome(pgp_signer) /\ pgp_compress)
              => EncryptedPayload
                    = Compressed(Signed(Unwrap(pgp_signer).fingerprint, Literal(pgp_plain)))

\* compress is set and there is no signing key: a bare literal is encrypted.
C23_Witness ==
    /\ IsSome(pgp_ctext)
    /\ pgp_signer = None
    /\ pgp_compress
    /\ pgp_plain /= <<>>
    /\ Len(pgp_keys) > 0
    /\ EncryptedPayload = Literal(pgp_plain)

\* C24: pk_encrypt encrypts, for each recipient key, to the first subkey
\* flagged as an encryption key; a key without one is skipped without an
\* error; the recipients of the message are exactly the selected subkeys, so
\* there can be fewer recipients than keys.
C24_FirstEncryptionSubkeyOrSkipped ==
    IsSome(pgp_ctext) =>
        /\ Unwrap(pgp_ctext).tag = "Ok"
        /\ EncryptedRecipients =
              {pgp_keys[i].public_subkeys[FirstEncryptionSubkey(pgp_keys[i])].id :
                  i \in {j \in 1..Len(pgp_keys) : FirstEncryptionSubkey(pgp_keys[j]) /= 0}}
        /\ Cardinality(EncryptedRecipients) <= Len(pgp_keys)

\* A key without an encryption subkey and a key whose second subkey is the
\* first flagged one: one recipient for two keys.
C24_Witness ==
    /\ IsSome(pgp_ctext)
    /\ Unwrap(pgp_ctext).tag = "Ok"
    /\ Len(pgp_keys) = 2
    /\ pgp_keys[1].fingerprint = "carol"
    /\ pgp_keys[2].fingerprint = "bob"
    /\ EncryptedRecipients = {"bob.enc"}

(************************ claims on the call managers **************************)

\* C25: after any sequence of start_call, simulate_incoming_call,
\* accept_call and end_call, get_active_calls is exactly the ids that
\* start_call or simulate_incoming_call returned and no successful end_call
\* ended; its size is the successful starts minus the successful ends, and
\* get_call_status of an ended id is None.
C25_ActiveCallsAreStartedNotEnded ==
    /\ get_active_calls(vc_active_calls) = vc_issued \ vc_ended
    /\ Cardinality(get_active_calls(vc_active_calls)) = vc_starts - vc_ends
    /\ \A call_id \in vc_ended : get_call_status(vc_active_calls, call_id) = None

\* Three calls were started, one of them incoming, and one was ended.
C25_Witness ==
    /\ vc_starts = 3
    /\ vc_ends = 1
    /\ Cardinality(get_active_calls(vc_active_calls)) = 2
    /\ \E call_id \in vc_ended : get_call_status(vc_active_calls, call_id) = None
    /\ \E call_id \in DOMAIN vc_active_calls : vc_active_calls[call_id].is_incoming
    /\ \E call_id \in DOMAIN vc_active_calls : ~vc_active_calls[call_id].is_incoming

\* The statuses that the active-call map holds and get_call_status reports.
C30_OnlyRingingOrConnected ==
    /\ \A call_id \in DOMAIN vc_active_calls :
          /\ vc_active_calls[call_id].status \in {"Ringing", "Connected"}
          /\ accept_call(vc_active_calls, call_id).ret.tag = "Ok"
          /\ accept_call(vc_active_calls, call_id).calls[call_id].status = "Connected"
    /\ \A call_id \in CallIds :
          get_call_status(vc_active_calls, call_id) \notin {Some("Ended"), Some("Failed")}

\* What one operation does to the status of a call.
C30_StatusStep ==
    \A call_id \in CallIds :
        /\ (call_id \notin DOMAIN vc_active_calls /\ call_id \in DOMAIN vc_active_calls')
              => vc_active_calls'[call_id].status = "Ringing"
        /\ (call_id \in DOMAIN vc_active_calls /\ call_id \in DOMAIN vc_active_calls')
              => \/ vc_active_calls'[call_id].status = vc_active_calls[call_id].status
                 \/ /\ vc_active_calls[call_id].status = "Ringing"
                    /\ vc_active_calls'[call_id].status = "Connected"

\* C30: in every reachable state each call in the active-call map is Ringing
\* or Connected: a new call starts as Ringing, accept_call moves it to
\* Connected, no operation moves a Connected call back to Ringing, and
\* get_call_status never reports Ended or Failed.
C30_RingingThenConnected == []C30_OnlyRingingOrConnected /\ [][C30_StatusStep]_vars

\* One call was accepted, one is still ringing and one was ended.
C30_Witness ==
    /\ \E call_id \in DOMAIN vc_active_calls : vc_active_calls[call_id].status = "Connected"
    /\ \E call_id \in DOMAIN vc_active_calls : vc_active_calls[call_id].status = "Ringing"
    /\ \E call_id \in vc_ended : get_call_status(vc_active_calls, call_id) = None

\* C29: under every interleaving of end_call with the connection tasks that
\* start_call spawned, a call that was ended is never back in the
\* active-call map and is never reported as Connected: a connection task
\* changes the status of a call that is still in the map and nothing else.
C29_EndedCallStaysEnded ==
    /\ \A call_id \in cm_ended :
          /\ call_id \notin callme_get_active_calls(cm_active_calls)
          /\ callme_get_call_status(cm_active_calls, call_id) = Err("Call not found")
    /\ \A call_id \in DOMAIN cm_tasks :
          /\ DOMAIN connection_task(cm_active_calls, call_id).calls = DOMAIN cm_active_calls
          /\ \A other \in DOMAIN cm_active_calls \ {call_id} :
                connection_task(cm_active_calls, call_id).calls[other] = cm_active_calls[other]
          /\ cm_tasks[call_id] = "call_gone" => call_id \in cm_ended
          /\ cm_tasks[call_id] = "connected" =>
                (call_id \in cm_ended \/ cm_active_calls[call_id].status = "Connected")

\* A call was ended while its connection task slept; the task then ran and
\* found no call, while the task of another call connected it.
C29_Witness ==
    /\ \E call_id \in cm_ended :
          /\ cm_tasks[call_id] = "call_gone"
          /\ callme_get_call_status(cm_active_calls, call_id).tag = "Err"
    /\ \E call_id \in DOMAIN cm_active_calls :
          /\ cm_tasks[call_id] = "connected"
          /\ cm_active_calls[call_id].status = "Connected"

(************************ claims on the IMAP session ***************************)

\* The list that a successful prefetch returned.
Prefetched ==
    IF IsSome(imap_ret) /\ Unwrap(imap_ret).tag = "Ok" THEN Unwrap(imap_ret).value ELSE <<>>

\* C26: prefetch(uid_next) returns only messages whose UID is present and at
\* least uid_next, each at most once, ordered by ascending INTERNALDATE with
\* ties broken by ascending UID.
C26_PrefetchFilteredUniqueOrdered ==
    /\ \A i \in 1..Len(Prefetched) :
          /\ Prefetched[i][1] >= imap_uid_next
          /\ Prefetched[i][2].uid = Some(Prefetched[i][1])
          /\ Ok(Prefetched[i][2]) \in Range(imap_list)
    /\ \A i, j \in 1..Len(Prefetched) :
          i < j =>
             /\ Prefetched[i][1] /= Prefetched[j][1]
             /\ key_less(<<Prefetched[i][2].internal_date, Prefetched[i][1]>>,
                         <<Prefetched[j][2].internal_date, Prefetched[j][1]>>)

\* C11: when the body cannot be serialized, EncryptHelper::encrypt and
\* EncryptHelper::sign return an error and never encrypt or sign an empty or
\* partially written body.
C11_SerializationFailureIsError ==
    (IsSome(helper_ret) /\ ~helper_write.ok) => Unwrap(helper_ret).ret.tag = "Err"

====
